---------------------------- MODULE Spec2Model ----------------------------
(***************************************************************************)
(* Model of ulog-decoder: the argument model (ulog_argument.rs), the       *)
(* message renderer (ulog_message.rs), the frame loop of main.rs, the      *)
(* segment splitter (splitter.rs) and the dictionary loader (elf.rs).      *)
(*                                                                         *)
(* Six specifications share the module:                                    *)
(*   SpecArg   - ULogArgument::try_from followed by ULogArgument::read on  *)
(*               a bounded reader;                                         *)
(*   Spec      - main / main_inner: start-up, registry population and the  *)
(*               frame loop;                                               *)
(*   SpecElf   - the argument/message pairing of attempt_load_elf;         *)
(*   SpecFmt   - one call of ULogMessage::formatted_string;                *)
(*   SpecSplit - one call of split_segments;                               *)
(*   SpecSym   - attempt_load_elf from the symbols of the .ulog section    *)
(*               on.                                                       *)
(***************************************************************************)
EXTENDS Integers, Sequences, FiniteSets, TLC

VARIABLES
    \* ---- SpecArg: one argument, built from a type id and read once
    a_pc,        \* "new" | "built" | "invalid" | "read"
    a_type,      \* the type-id byte handed to try_from
    a_arg,       \* the skeleton argument try_from returned
    a_err,       \* the id InvalidTypeId carries, -1 when there is none
    a_reader,    \* the bytes the reader holds before the read
    a_res        \* the result of ULogArgument::read

argVars == <<a_pc, a_type, a_arg, a_err, a_reader, a_res>>

VARIABLES
    \* ---- Spec: main / main_inner
    m_pc,        \* "start" | "load" | "loop" | "returned" | "exited" | "panicked"
    m_files,     \* args.map_files still to be loaded
    m_systems,   \* systems: system id -> ULogSystemInfo
    m_wire,      \* every byte the source delivers before its EOF
    m_pos,       \* number of bytes of m_wire the reader has consumed
    m_buf,       \* buf
    m_out,       \* what was printed, in order: [stream, kind, raw]
    m_last,      \* the last loop iteration: its result, data, message, line
    m_timeouts,  \* reads of the source that ended TimedOut
    m_errors,    \* reads of the source that ended with another error
    m_result,    \* what main_inner returned
    m_exit       \* the exit code of the process, -1 while it runs

mainVars == <<m_pc, m_files, m_systems, m_wire, m_pos, m_buf, m_out, m_last,
              m_timeouts, m_errors, m_result, m_exit>>

VARIABLES
    \* ---- SpecElf: attempt_load_elf from the parsed `level` members on
    e_pc,        \* "level" | "argument" | "sort_arguments" | "sort_messages"
                 \* | "walk" | "meta" | "returned"
    e_level,     \* members of the `level` sub-section, in symbol-table order
    e_argument,  \* members of the `argument` sub-section, likewise
    e_messages,  \* ulog_messages: id -> ULogMessage
    e_arguments, \* ulog_arguments: ((MessageIdentifier, seq), ULogArgument)
    e_order,     \* the sorted iterator over the messages, as their ids
    e_ai,        \* position of ulog_arguments.next()
    e_mi,        \* position of ulog_messages.peek_mut()
    e_result     \* what attempt_load_elf returned

elfVars == <<e_pc, e_level, e_argument, e_messages, e_arguments, e_order,
             e_ai, e_mi, e_result>>

VARIABLES
    \* ---- SpecFmt: one call of ULogMessage::formatted_string
    f_pc,        \* "new" | "returned" | "panicked"
    f_types,     \* the type ids the message's arguments were built from
    f_reader,    \* the bytes the reader holds before the call
    f_res        \* what formatted_string returned

fmtVars == <<f_pc, f_types, f_reader, f_res>>

VARIABLES
    \* ---- SpecSplit: one call of split_segments
    s_pc,        \* "loop" | "returned"
    s_input,     \* the string handed to split_segments
    s_delim,     \* the delimiter
    s_string,    \* string: Option<&str>, what is still to be split
    s_result,    \* result: Vec<String>
    s_ret        \* what split_segments returned

splitVars == <<s_pc, s_input, s_delim, s_string, s_result, s_ret>>

VARIABLES
    \* ---- SpecSym: attempt_load_elf from the symbols of the .ulog section on
    y_pc,         \* "open" | "returned"
    y_endianness, \* elf_file.ehdr.endianness: "little" | "big"
    y_symbols,    \* the symbols of the section besides the markers, in the
                  \* order of the symbol table
    y_template_ok, \* whether FormatString::from_string accepted the formats
    y_result      \* what attempt_load_elf returned

symVars == <<y_pc, y_endianness, y_symbols, y_template_ok, y_result>>

vars == <<argVars, mainVars, elfVars, fmtVars, splitVars, symVars>>

(***************************************************************************)
(* Bounds of the model.                                                    *)
(***************************************************************************)
\* longest reader handed to ULogArgument::read
MaxReader == 8

\* most bytes the source delivers before EOF
MaxWire == 3

\* most map files on the command line
MaxMaps == 2

\* most reads of the source that fail (TimedOut or another error) in a run
MaxFaults == 1

\* most members of the `level` sub-section
MaxLevel == 2

\* most members of the `argument` sub-section
MaxArgument == 2

\* most arguments of the message handed to formatted_string
MaxFmtArguments == 2

\* longest reader handed to formatted_string
MaxFmtReader == 4

\* longest string handed to split_segments
MaxInput == 7

\* most symbols of the .ulog section besides the markers
MaxSymbols == 2

\* byte values the readers are filled with: NUL / false / length 0, a small
\* positive byte, the smallest byte with the top bit set, and the largest
Bytes == {0, 1, 128, 255}

(***************************************************************************)
(* Option<T>: None is the empty sequence, Some(v) the one-element one.     *)
(***************************************************************************)
None == <<>>
Some(v) == <<v>>

(***************************************************************************)
(* Byte helpers.                                                           *)
(***************************************************************************)
RECURSIVE Pow2(_)
Pow2(n) == IF n = 0 THEN 1 ELSE 2 * Pow2(n - 1)

\* byteorder's BigEndian read of Len(bs) bytes as an unsigned integer
RECURSIVE BEValue(_)
BEValue(bs) ==
    IF bs = <<>> THEN 0
    ELSE BEValue(SubSeq(bs, 1, Len(bs) - 1)) * 256 + bs[Len(bs)]

\* reinterpretation of an unsigned `bits`-wide value as two's complement
ToSigned(u, bits) == IF u >= Pow2(bits - 1) THEN u - Pow2(bits) ELSE u

\* Values wider than 31 bits do not fit the checker's integers: a u32, i64,
\* u64, f32 or f64 value is kept as its big-endian image in the width of
\* its type (a bijection with the values of the type); an i32 is a number.
SignedByte(b) == IF b >= 128 THEN b - 256 ELSE b
I32Value(img) == SignedByte(img[1]) * Pow2(24) + BEValue(SubSeq(img, 2, 4))

\* a u32 read big-endian, saturated at i32::MAX: it is only ever compared
\* with the number of bytes a reader holds
U32Capped(img) ==
    IF img[1] >= 128 THEN 2147483647 ELSE BEValue(img)

\* io::Read::read_exact on a byte slice: n bytes or UnexpectedEof.  After a
\* failure the slice reader is left at its end.
ReadExact(reader, n) ==
    IF Len(reader) < n
    THEN [ok |-> FALSE, data |-> <<>>, rest |-> <<>>]
    ELSE [ok |-> TRUE,
          data |-> SubSeq(reader, 1, n),
          rest |-> SubSeq(reader, n + 1, Len(reader))]

\* position of the first NUL of bs, 0 when there is none
RECURSIVE FirstNul(_, _)
FirstNul(bs, i) ==
    IF i > Len(bs) THEN 0
    ELSE IF bs[i] = 0 THEN i
    ELSE FirstNul(bs, i + 1)

\* io::BufRead::read_until(0x00) on a byte slice: everything up to and
\* including the first NUL, or everything when there is none; never fails
ReadUntilNul(reader) ==
    LET i == FirstNul(reader, 1)
    IN  IF i = 0
        THEN [data |-> reader, rest |-> <<>>]
        ELSE [data |-> SubSeq(reader, 1, i),
              rest |-> SubSeq(reader, i + 1, Len(reader))]

\* String::from_utf8_lossy.  No byte of Bytes is the lead byte of a
\* multi-byte sequence, so every byte >= 0x80 is an invalid sequence of its
\* own and becomes U+FFFD; ASCII bytes are kept.
Utf8Lossy(bs) == [i \in 1..Len(bs) |-> IF bs[i] < 128 THEN bs[i] ELSE 65533]

(***************************************************************************)
(* ULogArgument::try_from(u8)                                              *)
(***************************************************************************)
Skeleton(kind, size) == [kind |-> kind, size |-> size, value |-> None]
Built(arg) == [ok |-> TRUE, arg |-> arg, id |-> 0]
InvalidTypeId(x) == [ok |-> FALSE, arg |-> Skeleton("none", 0), id |-> x]

TryFromOffByOne(value) ==
    IF value = 1 THEN Built(Skeleton("Slice", 0))
    ELSE IF value = 2 THEN Built(Skeleton("Float", 0))
    ELSE IF value = 3 THEN Built(Skeleton("Double", 0))
    ELSE IF value = 4 THEN Built(Skeleton("String", 0))
    ELSE IF value = 5 THEN Built(Skeleton("Bool", 0))
    ELSE IF value = 6 THEN Built(Skeleton("ULogString", 0))
    ELSE IF value = 240 THEN Built(Skeleton("Int8", 0))
    ELSE IF value = 241 THEN Built(Skeleton("Int16", 0))
    ELSE IF value \in 242..243 THEN Built(Skeleton("Int32", value - 239))
    ELSE IF value \in 244..247 THEN Built(Skeleton("Int64", value - 239))
    ELSE IF value = 248 THEN Built(Skeleton("UInt8", 0))
    ELSE IF value = 249 THEN Built(Skeleton("UInt16", 0))
    ELSE IF value \in 250..251 THEN Built(Skeleton("UInt32", value - 247))
    ELSE IF value \in 252..255 THEN Built(Skeleton("UInt64", value - 248))
    ELSE InvalidTypeId(value)

TryFrom(value) ==
    IF value = 1 THEN Built(Skeleton("Slice", 0))
    ELSE IF value = 2 THEN Built(Skeleton("Float", 0))
    ELSE IF value = 3 THEN Built(Skeleton("Double", 0))
    ELSE IF value = 4 THEN Built(Skeleton("String", 0))
    ELSE IF value = 5 THEN Built(Skeleton("Bool", 0))
    ELSE IF value = 6 THEN Built(Skeleton("ULogString", 0))
    ELSE IF value = 240 THEN Built(Skeleton("Int8", 0))
    ELSE IF value = 241 THEN Built(Skeleton("Int16", 0))
    ELSE IF value \in 242..243 THEN Built(Skeleton("Int32", value - 239))
    ELSE IF value \in 244..247 THEN Built(Skeleton("Int64", value - 239))
    ELSE IF value = 248 THEN Built(Skeleton("UInt8", 0))
    ELSE IF value = 249 THEN Built(Skeleton("UInt16", 0))
    ELSE IF value \in 250..251 THEN Built(Skeleton("UInt32", value - 247))
    ELSE IF value \in 252..255 THEN Built(Skeleton("UInt64", value - 247))
    ELSE InvalidTypeId(value)

(***************************************************************************)
(* ULogArgument::read.  The result carries the outcome, the argument with  *)
(* its value set on success, and what the reader still holds.             *)
(* status: "Ok" | "Io" | "MissingStringId" | "Panic"                       *)
(***************************************************************************)
ROk(arg, v, rest) == [status |-> "Ok", arg |-> [arg EXCEPT !.value = Some(v)], rest |-> rest]
RErr(status, arg, rest) == [status |-> status, arg |-> arg, rest |-> rest]

\* reader.read_u8 / read_i8 / read_u16::<BE> / read_i16::<BE>
ReadFixed(arg, reader, n, signed) ==
    LET rd == ReadExact(reader, n)
    IN  IF ~rd.ok THEN RErr("Io", arg, rd.rest)
        ELSE ROk(arg,
                 IF signed THEN ToSigned(BEValue(rd.data), 8 * n) ELSE BEValue(rd.data),
                 rd.rest)

\* reader.read_f32::<BE> / read_f64::<BE>: the value is kept as its image
ReadFloat(arg, reader, n) ==
    LET rd == ReadExact(reader, n)
    IN  IF ~rd.ok THEN RErr("Io", arg, rd.rest)
        ELSE ROk(arg, rd.data, rd.rest)

\* the Int32 / Int64 / UInt32 / UInt64 arms: a buffer of `size` bytes whose
\* tail from index width - size is filled from the reader, sign-filled when
\* signed, then read as a width-byte big-endian integer
ReadVarInt(arg, reader, width, signed) ==
    LET size == arg.size
        empty_bytes == width - size
        rd == ReadExact(reader, size - empty_bytes)
        buf == [i \in 1..size |-> IF i <= empty_bytes THEN 0 ELSE rd.data[i - empty_bytes]]
        ext == IF signed /\ buf[empty_bytes + 1] >= 128
               THEN [i \in 1..size |-> IF i <= empty_bytes THEN 255 ELSE buf[i]]
               ELSE buf
        conv == ReadExact(ext, width)
    IN  IF ~rd.ok THEN RErr("Io", arg, rd.rest)
        ELSE IF ~conv.ok THEN RErr("Io", arg, rd.rest)
        ELSE ROk(arg,
                 IF signed /\ width = 4 THEN I32Value(conv.data) ELSE conv.data,
                 rd.rest)

\* the Slice arm: a u32 length, a zeroed vector of that length, read_exact
ReadSlice(arg, reader) ==
    LET hd == ReadExact(reader, 4)
        size == U32Capped(hd.data)
        body == ReadExact(hd.rest, size)
    IN  IF ~hd.ok THEN RErr("Io", arg, hd.rest)
        ELSE IF ~body.ok THEN RErr("Io", arg, body.rest)
        ELSE ROk(arg, body.data, body.rest)

ReadString(arg, reader) ==
    LET rd == ReadUntilNul(reader)
        string == rd.data
    IN  IF Len(string) = 0 THEN RErr("Panic", arg, rd.rest)
        ELSE ROk(arg, Utf8Lossy(SubSeq(string, 1, Len(string) - 1)), rd.rest)

ReadBool(arg, reader) ==
    LET rd == ReadExact(reader, 1)
    IN  IF ~rd.ok THEN RErr("Io", arg, rd.rest)
        ELSE ROk(arg, rd.data[1] # 0, rd.rest)

\* string_map: a function from the ids present to the strings' values
ReadULogStringLittleEndian(arg, reader, string_map) ==
    LET rd == ReadExact(reader, 2)
        string_id == BEValue(<<rd.data[2], rd.data[1]>>)
    IN  IF ~rd.ok THEN RErr("Io", arg, rd.rest)
        ELSE IF string_id \notin DOMAIN string_map
             THEN RErr("MissingStringId", arg, rd.rest)
        ELSE ROk(arg, string_map[string_id], rd.rest)

ReadULogString(arg, reader, string_map) ==
    LET rd == ReadExact(reader, 2)
        string_id == BEValue(rd.data)
    IN  IF ~rd.ok THEN RErr("Io", arg, rd.rest)
        ELSE IF string_id \notin DOMAIN string_map
             THEN RErr("MissingStringId", arg, rd.rest)
        ELSE ROk(arg, string_map[string_id], rd.rest)

ArgRead(arg, reader, string_map) ==
    CASE arg.kind = "Slice"      -> ReadSlice(arg, reader)
      [] arg.kind = "Float"      -> ReadFloat(arg, reader, 4)
      [] arg.kind = "Double"     -> ReadFloat(arg, reader, 8)
      [] arg.kind = "String"     -> ReadString(arg, reader)
      [] arg.kind = "Bool"       -> ReadBool(arg, reader)
      [] arg.kind = "ULogString" -> ReadULogString(arg, reader, string_map)
      [] arg.kind = "Int8"       -> ReadFixed(arg, reader, 1, TRUE)
      [] arg.kind = "Int16"      -> ReadFixed(arg, reader, 2, TRUE)
      [] arg.kind = "Int32"      -> ReadVarInt(arg, reader, 4, TRUE)
      [] arg.kind = "Int64"      -> ReadVarInt(arg, reader, 8, TRUE)
      [] arg.kind = "UInt8"      -> ReadFixed(arg, reader, 1, FALSE)
      [] arg.kind = "UInt16"     -> ReadFixed(arg, reader, 2, FALSE)
      [] arg.kind = "UInt32"     -> ReadVarInt(arg, reader, 4, FALSE)
      [] arg.kind = "UInt64"     -> ReadVarInt(arg, reader, 8, FALSE)

(***************************************************************************)
(* SpecArg: try_from on every type id, then read on every bounded reader.  *)
(***************************************************************************)
\* the string map the reads of SpecArg resolve ULogString ids in
ArgStringMap == (1 :> "world")

NoResult == RErr("none", Skeleton("none", 0), <<>>)

\* main_inner's Result<(), ULogDecoderError>; system_id and file are the
\* fields of DuplicateSystemId
Returned(kind, system_id, file) == [kind |-> kind, system_id |-> system_id, file |-> file]
NoReturn == Returned("none", -1, "")

\* one iteration of the frame loop: how the read of the source ended, the
\* closure's result, the hoisted `data` and `message`, and the line printed
Iteration(step, result, number, cause, data, message, line) ==
    [step |-> step, result |-> result, number |-> number, cause |-> cause,
     data |-> data, message |-> message, line |-> line]
NoLast == Iteration("none", "none", -1, "none", None, None, None)

ArgIdle ==
    /\ a_pc = "new"
    /\ a_type = 0
    /\ a_arg = Skeleton("none", 0)
    /\ a_err = -1
    /\ a_reader = <<>>
    /\ a_res = NoResult

MainIdle ==
    /\ m_pc = "idle"
    /\ m_files = <<>>
    /\ m_systems = <<>>
    /\ m_wire = <<>>
    /\ m_pos = 0
    /\ m_buf = <<>>
    /\ m_out = <<>>
    /\ m_last = NoLast
    /\ m_timeouts = 0
    /\ m_errors = 0
    /\ m_result = NoReturn
    /\ m_exit = -1

\* Result<ULogSystemInfo, ElfParseError>
Loaded(kind, system) == [kind |-> kind, system |-> system]
NoDictionary == [ulog_strings |-> <<>>, messages |-> <<>>, system_id |-> 0]
NotLoaded == Loaded("none", NoDictionary)

ElfIdle ==
    /\ e_pc = "idle"
    /\ e_level = <<>>
    /\ e_argument = <<>>
    /\ e_messages = <<>>
    /\ e_arguments = <<>>
    /\ e_order = <<>>
    /\ e_ai = 0
    /\ e_mi = 0
    /\ e_result = NotLoaded

\* Result<String, ULogMessageFormatError>, with what the reader still holds
FormatResult(status, number, cause, text, rest) ==
    [status |-> status, number |-> number, cause |-> cause, text |-> text,
     rest |-> rest]
NotFormatted == FormatResult("none", -1, "none", None, <<>>)

FmtIdle ==
    /\ f_pc = "idle"
    /\ f_types = <<>>
    /\ f_reader = <<>>
    /\ f_res = NotFormatted

\* Result<Vec<String>, SplitSegmentError>
SplitResult(status, fields) == [status |-> status, fields |-> fields]
NotSplit == SplitResult("none", <<>>)

SplitIdle ==
    /\ s_pc = "idle"
    /\ s_input = <<>>
    /\ s_delim = "_"
    /\ s_string = None
    /\ s_result = <<>>
    /\ s_ret = NotSplit

\* Result<ULogSystemInfo, ElfParseError>; name is the symbol ElfSymbolParse
\* names
LoadOk(system) == [kind |-> "Ok", name |-> <<>>, system |-> system]
LoadFailed(kind, name) == [kind |-> kind, name |-> name, system |-> NoDictionary]
NoLoad == LoadFailed("none", <<>>)

SymIdle ==
    /\ y_pc = "idle"
    /\ y_endianness = "little"
    /\ y_symbols = <<>>
    /\ y_template_ok = TRUE
    /\ y_result = NoLoad

ArgInit ==
    /\ a_pc = "new"
    /\ a_type \in 0..255
    /\ a_arg = Skeleton("none", 0)
    /\ a_err = -1
    /\ a_reader = <<>>
    /\ a_res = NoResult
    /\ MainIdle
    /\ ElfIdle
    /\ FmtIdle
    /\ SplitIdle
    /\ SymIdle

\* ULogArgument::try_from(a_type) succeeds
Construct ==
    /\ a_pc = "new"
    /\ TryFrom(a_type).ok
    /\ a_arg' = TryFrom(a_type).arg
    /\ a_pc' = "built"
    /\ UNCHANGED <<a_type, a_err, a_reader, a_res>>
    /\ UNCHANGED <<mainVars, elfVars, fmtVars, splitVars, symVars>>

\* ULogArgument::try_from(a_type) fails with InvalidTypeId
ConstructFail ==
    /\ a_pc = "new"
    /\ ~TryFrom(a_type).ok
    /\ a_err' = TryFrom(a_type).id
    /\ a_pc' = "invalid"
    /\ UNCHANGED <<a_type, a_arg, a_reader, a_res>>
    /\ UNCHANGED <<mainVars, elfVars, fmtVars, splitVars, symVars>>

\* the caller's reader is given one more byte
PushByte ==
    /\ a_pc = "built"
    /\ Len(a_reader) < MaxReader
    /\ \E b \in Bytes : a_reader' = Append(a_reader, b)
    /\ UNCHANGED <<a_pc, a_type, a_arg, a_err, a_res>>
    /\ UNCHANGED <<mainVars, elfVars, fmtVars, splitVars, symVars>>

\* argument.read(reader, string_map)
DoRead ==
    /\ a_pc = "built"
    /\ a_res' = ArgRead(a_arg, a_reader, ArgStringMap)
    /\ a_pc' = "read"
    /\ UNCHANGED <<a_type, a_arg, a_err, a_reader>>
    /\ UNCHANGED <<mainVars, elfVars, fmtVars, splitVars, symVars>>

NextArg == Construct \/ ConstructFail \/ PushByte \/ DoRead

SpecArg == ArgInit /\ [][NextArg]_vars


(***************************************************************************)
(* ULogMessage::formatted_string                                           *)
(***************************************************************************)
\* one turn of the loop over args.iter_mut().enumerate(): r is what
\* argument.read returned for argument i (1-based here, 0-based in `number`)
ArgumentRead(prev, i, r) ==
    IF r.status = "Ok"
    THEN [status |-> "Ok", number |-> -1, cause |-> "none",
          args |-> [prev.args EXCEPT ![i] = r.arg], rest |-> r.rest]
    ELSE [status |-> IF r.status = "Panic" THEN "Panic" ELSE "ULogArgumentRead",
          number |-> i - 1, cause |-> r.status,
          args |-> prev.args, rest |-> r.rest]

\* a failed read has ended the loop: the arguments after it are not read
NextArgument(prev, i, string_map) ==
    IF prev.status # "Ok" THEN prev
    ELSE ArgumentRead(prev, i, ArgRead(prev.args[i], prev.rest, string_map))

\* the whole loop: after[i] is the state once the first i arguments of the
\* cloned list have been handled
ReadArguments(arguments, reader, string_map) ==
    LET after[i \in 0..Len(arguments)] ==
          IF i = 0
          THEN [status |-> "Ok", number |-> -1, cause |-> "none",
                args |-> arguments, rest |-> reader]
          ELSE NextArgument(after[i - 1], i, string_map)
    IN  after[Len(arguments)]

\* the values pushed into the template, in order
ArgValues(args) == [i \in 1..Len(args) |-> args[i].value]

\* the end of formatted_string with a reader that must be used up: bytes
\* left behind the last argument are reported as a read error
FormattedToTheEnd(message, rd, fmt_ok) ==
    IF rd.status # "Ok"
    THEN [status |-> rd.status, number |-> rd.number, cause |-> rd.cause,
          text |-> None, rest |-> rd.rest]
    ELSE IF rd.rest # <<>>
    THEN [status |-> "Read", number |-> Len(rd.args), cause |-> "TrailingBytes",
          text |-> None, rest |-> rd.rest]
    ELSE IF ~fmt_ok
    THEN [status |-> "Format", number |-> -1, cause |-> "none",
          text |-> None, rest |-> rd.rest]
    ELSE [status |-> "Ok", number |-> -1, cause |-> "none",
          text |-> Some([format |-> message.format, args |-> ArgValues(rd.args)]),
          rest |-> rd.rest]

\* the end of formatted_string: rd is what the argument loop left; fmt_ok
\* says whether the formatter accepts the arguments.  The formatted text is
\* kept as the template and the values fed to it.
Formatted(message, rd, fmt_ok) ==
    IF rd.status # "Ok"
    THEN [status |-> rd.status, number |-> rd.number, cause |-> rd.cause,
          text |-> None, rest |-> rd.rest]
    ELSE IF ~fmt_ok
    THEN [status |-> "Format", number |-> -1, cause |-> "none",
          text |-> None, rest |-> rd.rest]
    ELSE [status |-> "Ok", number |-> -1, cause |-> "none",
          text |-> Some([format |-> message.format, args |-> ArgValues(rd.args)]),
          rest |-> rd.rest]

FormattedString(message, reader, string_map, fmt_ok) ==
    Formatted(message, ReadArguments(message.arguments, reader, string_map), fmt_ok)

(***************************************************************************)
(* Dictionaries attempt_load_elf returns for the map files of the model.   *)
(***************************************************************************)
Message(id, format, file, line, severity_level, type_ids) ==
    [id |-> id, format |-> format,
     location |-> [file |-> file, line |-> line],
     severity_level |-> severity_level,
     arguments |-> [i \in 1..Len(type_ids) |-> TryFrom(type_ids[i]).arg]]

SystemInfo(ulog_strings, messages, system_id) ==
    [ulog_strings |-> ulog_strings, messages |-> messages, system_id |-> system_id]

\* a.elf: system 0x0001
DictA ==
    SystemInfo(
        (1 :> "world"),
        (0 :> Message(0, "hello", "main.c", 42, "Info", <<>>))
          @@ (1 :> Message(1, "name=%s", "main.c", 50, "Error", <<4>>))
          @@ (256 :> Message(256, "n=%d", "foo.c", 7, "Debug", <<248>>))
          @@ (257 :> Message(257, "val=%d", "foo.c", 9, "Trace", <<242>>)),
        1)

\* b.elf: system 0x0100
DictB ==
    SystemInfo(
        (16 :> "world"),
        (0 :> Message(0, "hello %s", "b.c", 1, "Notice", <<6>>)),
        256)

\* c.elf: system 0x0001 again, with another message table
DictC ==
    SystemInfo(
        <<>>,
        (0 :> Message(0, "other", "c.c", 3, "Warning", <<>>)),
        1)

\* the map files a command line may name; bad.elf is one attempt_load_elf
\* rejects
ElfFiles == {"a.elf", "b.elf", "c.elf", "bad.elf"}

AttemptLoadElf(path) ==
    CASE path = "a.elf" -> [ok |-> TRUE, system |-> DictA]
      [] path = "b.elf" -> [ok |-> TRUE, system |-> DictB]
      [] path = "c.elf" -> [ok |-> TRUE, system |-> DictC]
      [] OTHER -> [ok |-> FALSE, system |-> SystemInfo(<<>>, <<>>, 0)]

\* byte values of the framed stream: the terminator and one other byte
WireBytes == {0, 1}

RECURSIVE SeqsUpTo(_, _)
SeqsUpTo(S, n) ==
    IF n = 0 THEN {<<>>}
    ELSE LET shorter == SeqsUpTo(S, n - 1)
         IN  shorter \cup {Append(q, x) : q \in {r \in shorter : Len(r) = n - 1}, x \in S}

\* the payloads rzcobs::decode may return for a frame
LoopPayloads ==
    { <<>>, <<0>>,                       \* no system id
      <<0, 1>>, <<0, 1, 0>>,             \* no message id
      <<0, 0, 0, 0>>,                    \* system 0 is not registered
      <<0, 1, 255, 255>>,                \* system 1 has no message 0xFFFF
      <<1, 0, 0, 1>>,                    \* b.elf has no message 1 (a.elf has)
      <<0, 1, 0, 0>>,                    \* a.elf "hello"
      <<0, 1, 0, 0, 1>>,                 \* the same with a byte to spare
      <<0, 1, 0, 1>>,                    \* a.elf "name=%s", no argument bytes
      <<0, 1, 0, 1, 1>>,                 \* a String without its NUL
      <<0, 1, 0, 1, 1, 0>>,              \* a String with its NUL
      <<0, 1, 1, 0>>,                    \* a.elf "n=%d", argument missing
      <<0, 1, 1, 0, 255>>,               \* a.elf "n=%d", 255
      <<0, 1, 1, 0, 255, 1>>,            \* the same with a byte to spare
      <<0, 1, 1, 1, 128, 0, 0>>,         \* a.elf "val=%d", Int32{size=3}
      <<1, 0, 0, 0, 0, 16>>,             \* b.elf "hello %s", string 0x0010
      <<1, 0, 0, 0, 0, 1>> }             \* b.elf "hello %s", unknown string

(***************************************************************************)
(* SpecFmt: formatted_string on a message of a few arguments and a bounded *)
(* reader.                                                                 *)
(***************************************************************************)
\* type ids of the arguments: UInt8, String, ULogString, Int32 of 3 bytes
FmtTypeIds == {248, 4, 6, 242}

\* byte values of the reader: NUL / the high byte of string id 1, and 1
FmtBytes == {0, 1}

\* the message formatted_string is called on
FmtMessage(type_ids) == Message(0, "fmt", "main.c", 1, "Info", type_ids)

RECURSIVE TypeLists(_)
TypeLists(n) ==
    IF n = 0 THEN {<<>>}
    ELSE TypeLists(n - 1)
           \cup {Append(q, t) : q \in {r \in TypeLists(n - 1) : Len(r) = n - 1},
                                t \in FmtTypeIds}

FmtInit ==
    /\ f_pc = "new"
    /\ f_types \in TypeLists(MaxFmtArguments)
    /\ f_reader = <<>>
    /\ f_res = NotFormatted
    /\ ArgIdle
    /\ MainIdle
    /\ ElfIdle
    /\ SplitIdle
    /\ SymIdle

\* one more byte in the reader
FmtPushByte ==
    /\ f_pc = "new"
    /\ Len(f_reader) < MaxFmtReader
    /\ \E b \in FmtBytes : f_reader' = Append(f_reader, b)
    /\ UNCHANGED <<f_pc, f_types, f_res>>
    /\ UNCHANGED <<argVars, mainVars, elfVars, splitVars, symVars>>

\* message.formatted_string(reader, string_map)
FormatMessage ==
    /\ f_pc = "new"
    /\ \E fmt_ok \in BOOLEAN :
          f_res' = FormattedString(FmtMessage(f_types), f_reader, ArgStringMap, fmt_ok)
    /\ f_pc' = IF f_res'.status = "Panic" THEN "panicked" ELSE "returned"
    /\ UNCHANGED <<f_types, f_reader>>
    /\ UNCHANGED <<argVars, mainVars, elfVars, splitVars, symVars>>

NextFmt == FmtPushByte \/ FormatMessage

SpecFmt == FmtInit /\ [][NextFmt]_vars

(***************************************************************************)
(* impl Display for SeverityLevel                                          *)
(***************************************************************************)
\* the label of the plain form whether or not the alternate one is asked for
SeverityDisplayPlain(level, alternate) == level

SeverityDisplay(level, alternate) ==
    IF alternate
    THEN CASE level = "Emergency" -> "EMERGENCY" [] level = "Alert" -> "ALERT"
           [] level = "Critical" -> "CRITICAL"   [] level = "Error" -> "ERROR"
           [] level = "Warning" -> "WARNING"     [] level = "Notice" -> "NOTICE"
           [] level = "Info" -> "INFO"           [] level = "Debug" -> "DEBUG"
           [] level = "Trace" -> "TRACE"
    ELSE level

(***************************************************************************)
(* main_inner: the closure run for one frame, from rzcobs::decode on.      *)
(***************************************************************************)
\* {:X?} of a u16: its upper-case hexadecimal digits, no leading zero
HexDigits == <<"0", "1", "2", "3", "4", "5", "6", "7",
               "8", "9", "A", "B", "C", "D", "E", "F">>

RECURSIVE UpperHex(_)
UpperHex(n) ==
    IF n < 16 THEN <<HexDigits[n + 1]>>
    ELSE UpperHex(n \div 16) \o <<HexDigits[(n % 16) + 1]>>

\* data.read_u16::<LE>(): the two bytes taken in the other order
ReadU16LittleEndian(reader) ==
    LET rd == ReadExact(reader, 2)
    IN  [ok |-> rd.ok,
         v |-> IF rd.ok THEN BEValue(<<rd.data[2], rd.data[1]>>) ELSE 0,
         rest |-> rd.rest]

\* data.read_u16::<BE>()
ReadU16(reader) ==
    LET rd == ReadExact(reader, 2)
    IN  [ok |-> rd.ok, v |-> IF rd.ok THEN BEValue(rd.data) ELSE 0, rest |-> rd.rest]

\* the message was found: fs is what formatted_string returned; on success
\* the record is printed
HandleMessage(data, system_id, message, fs) ==
    IF fs.status = "Panic"
    THEN Iteration("frame", "Panic", fs.number, fs.cause, Some(data), Some(message.id), None)
    ELSE IF fs.status # "Ok"
    THEN Iteration("frame", "Format", fs.number,
                   IF fs.status = "Format" THEN "Format" ELSE fs.cause,
                   Some(data), Some(message.id), None)
    ELSE Iteration("frame", "Ok", -1, "none", Some(data), Some(message.id),
                   Some([severity |-> SeverityDisplay(message.severity_level, TRUE),
                         text |-> fs.text[1],
                         system_id |-> system_id,
                         hex |-> UpperHex(system_id),
                         file |-> message.location.file,
                         line |-> message.location.line]))

\* both ids were read: the system, then the message in that system's map
HandleIds(systems, data, system_id, message_id, reader, fmt_ok) ==
    IF system_id \notin DOMAIN systems
    THEN Iteration("frame", "UnknownSystem", -1, "none", Some(data), None, None)
    ELSE IF message_id \notin DOMAIN systems[system_id].messages
    THEN Iteration("frame", "UnknownMessage", -1, "none", Some(data), None, None)
    ELSE HandleMessage(data, system_id, systems[system_id].messages[message_id],
                       FormattedString(systems[system_id].messages[message_id], reader,
                                       systems[system_id].ulog_strings, fmt_ok))

\* sid, mid: what the two read_u16 returned
HandleHeader(systems, data, sid, mid, fmt_ok) ==
    IF ~sid.ok
    THEN Iteration("frame", "SystemIdRead", -1, "none", Some(data), None, None)
    ELSE IF ~mid.ok
    THEN Iteration("frame", "MessageIdRead", -1, "none", Some(data), None, None)
    ELSE HandleIds(systems, data, sid.v, mid.v, mid.rest, fmt_ok)

\* decoded: what rzcobs::decode returned, [ok, data]
HandleFrame(systems, decoded, fmt_ok) ==
    IF ~decoded.ok
    THEN Iteration("frame", "Rzcobs", -1, "none", None, None, None)
    ELSE HandleHeader(systems, decoded.data, ReadU16(decoded.data),
                      ReadU16(ReadU16(decoded.data).rest), fmt_ok)

(***************************************************************************)
(* Spec: main.  Start-up, registry population, the frame loop, the exit.   *)
(***************************************************************************)
Printed(stream, kind, raw) == [stream |-> stream, kind |-> kind, raw |-> raw]

MainInit ==
    /\ m_pc = "start"
    /\ m_files \in {f \in SeqsUpTo(ElfFiles, MaxMaps) : Len(f) >= 1}
    /\ m_systems = <<>>
    /\ m_wire \in SeqsUpTo(WireBytes, MaxWire)
    /\ m_pos = 0
    /\ m_buf = <<>>
    /\ m_out = <<>>
    /\ m_last = NoLast
    /\ m_timeouts = 0
    /\ m_errors = 0
    /\ m_result = NoReturn
    /\ m_exit = -1
    /\ ArgIdle
    /\ ElfIdle
    /\ FmtIdle
    /\ SplitIdle
    /\ SymIdle

\* the source is opened and the "Source: ..." line printed
OpenSource ==
    /\ m_pc = "start"
    /\ m_out' = Append(m_out, Printed("stdout", "source", <<>>))
    /\ m_pc' = "load"
    /\ UNCHANGED <<m_files, m_systems, m_wire, m_pos, m_buf, m_last,
                   m_timeouts, m_errors, m_result, m_exit>>
    /\ UNCHANGED <<argVars, elfVars, fmtVars, splitVars, symVars>>

\* the source cannot be opened: the file and the serial port are named on
\* stdout before they are opened, the automatic port is looked up before
OpenSourceFail ==
    /\ m_pc = "start"
    /\ \E e \in {"FileSourceOpen", "SerialSourceOpen", "NoSerialSource"} :
          /\ m_result' = Returned(e, -1, "")
          /\ m_out' = IF e = "NoSerialSource" THEN m_out
                      ELSE Append(m_out, Printed("stdout", "source", <<>>))
    /\ m_pc' = "returned"
    /\ UNCHANGED <<m_files, m_systems, m_wire, m_pos, m_buf, m_last,
                   m_timeouts, m_errors, m_exit>>
    /\ UNCHANGED <<argVars, elfVars, fmtVars, splitVars, symVars>>

\* one turn of `for map_file in &args.map_files` in which a dictionary whose
\* system id is already registered silently replaces the earlier one
LoadElfReplacing ==
    /\ m_pc = "load"
    /\ m_files # <<>>
    /\ LET map_file == Head(m_files)
           loaded == AttemptLoadElf(map_file)
           system == loaded.system
       IN  IF ~loaded.ok
           THEN /\ m_result' = Returned("ELFLoad", -1, map_file)
                /\ m_pc' = "returned"
                /\ UNCHANGED m_systems
           ELSE /\ m_systems' = (system.system_id :> system) @@ m_systems
                /\ UNCHANGED <<m_result, m_pc>>
    /\ m_files' = Tail(m_files)
    /\ UNCHANGED <<m_wire, m_pos, m_buf, m_out, m_last, m_timeouts, m_errors, m_exit>>
    /\ UNCHANGED <<argVars, elfVars, fmtVars, splitVars, symVars>>

\* one turn of `for map_file in &args.map_files`
LoadElf ==
    /\ m_pc = "load"
    /\ m_files # <<>>
    /\ LET map_file == Head(m_files)
           loaded == AttemptLoadElf(map_file)
           system == loaded.system
           duplicate == system.system_id \in DOMAIN m_systems
       IN  IF ~loaded.ok
           THEN /\ m_result' = Returned("ELFLoad", -1, map_file)
                /\ m_pc' = "returned"
                /\ UNCHANGED m_systems
           ELSE /\ m_systems' = (system.system_id :> system) @@ m_systems
                /\ IF duplicate
                   THEN /\ m_result' = Returned("DuplicateSystemId",
                                                m_systems[system.system_id].system_id,
                                                map_file)
                        /\ m_pc' = "returned"
                   ELSE UNCHANGED <<m_result, m_pc>>
    /\ m_files' = Tail(m_files)
    /\ UNCHANGED <<m_wire, m_pos, m_buf, m_out, m_last, m_timeouts, m_errors, m_exit>>
    /\ UNCHANGED <<argVars, elfVars, fmtVars, splitVars, symVars>>

\* every map file is loaded: `let mut buf = vec![]; loop {`
EnterLoop ==
    /\ m_pc = "load"
    /\ m_files = <<>>
    /\ m_pc' = "loop"
    /\ m_buf' = <<>>
    /\ UNCHANGED <<m_files, m_systems, m_wire, m_pos, m_out, m_last,
                   m_timeouts, m_errors, m_result, m_exit>>
    /\ UNCHANGED <<argVars, elfVars, fmtVars, splitVars, symVars>>

\* the bytes read_until(0x00) appends when it runs to its end: up to and
\* including the next terminator, or up to EOF
Remaining == SubSeq(m_wire, m_pos + 1, Len(m_wire))
NextFrame == ReadUntilNul(Remaining).data

\* the bytes before the next terminator: a read that fails has appended a
\* prefix of them
BeforeTerminator ==
    IF NextFrame # <<>> /\ NextFrame[Len(NextFrame)] = 0
    THEN SubSeq(NextFrame, 1, Len(NextFrame) - 1)
    ELSE NextFrame

\* an iteration whose read_until fails with TimedOut after k bytes: the
\* closure returns Ok(false) and nothing is printed
IterTimedOut ==
    /\ m_pc = "loop"
    /\ m_timeouts + m_errors < MaxFaults
    /\ \E k \in 0..Len(BeforeTerminator) :
          /\ m_buf' = SubSeq(BeforeTerminator, 1, k)
          /\ m_pos' = m_pos + k
    /\ m_timeouts' = m_timeouts + 1
    /\ m_last' = Iteration("timeout", "Ok", -1, "none", None, None, None)
    /\ UNCHANGED <<m_pc, m_files, m_systems, m_wire, m_out, m_errors, m_result, m_exit>>
    /\ UNCHANGED <<argVars, elfVars, fmtVars, splitVars, symVars>>

\* an iteration whose read_until fails with another error after k bytes:
\* the closure returns EntryRead, which is reported with the raw entry
IterReadError ==
    /\ m_pc = "loop"
    /\ m_timeouts + m_errors < MaxFaults
    /\ \E k \in 0..Len(BeforeTerminator) :
          /\ m_buf' = SubSeq(BeforeTerminator, 1, k)
          /\ m_pos' = m_pos + k
    /\ m_errors' = m_errors + 1
    /\ m_last' = Iteration("read_error", "EntryRead", -1, "none", None, None, None)
    /\ m_out' = Append(m_out, Printed("stderr", "diag", m_buf'))
    /\ UNCHANGED <<m_pc, m_files, m_systems, m_wire, m_timeouts, m_result, m_exit>>
    /\ UNCHANGED <<argVars, elfVars, fmtVars, splitVars, symVars>>

\* an iteration whose read_until returns no byte: the closure returns
\* Ok(true), the loop breaks and main_inner returns Ok(())
IterEof ==
    /\ m_pc = "loop"
    /\ Remaining = <<>>
    /\ m_buf' = <<>>
    /\ m_last' = Iteration("eof", "Ok", -1, "none", None, None, None)
    /\ m_result' = Returned("Ok", -1, "")
    /\ m_pc' = "returned"
    /\ UNCHANGED <<m_files, m_systems, m_wire, m_pos, m_out, m_timeouts, m_errors, m_exit>>
    /\ UNCHANGED <<argVars, elfVars, fmtVars, splitVars, symVars>>

\* `&buf[0..(buf.len() - 1)]`, what rzcobs::decode is handed
DecoderInput(buf) == SubSeq(buf, 1, Len(buf) - 1)

\* the registry once a frame was handled, had formatted_string read the
\* values into the arguments of the registered message itself
RegistryReadInPlace(systems, decoded) ==
    IF \/ ~decoded.ok
       \/ ~ReadU16(decoded.data).ok
       \/ ~ReadU16(ReadU16(decoded.data).rest).ok
    THEN systems
    ELSE IF ReadU16(decoded.data).v \notin DOMAIN systems THEN systems
    ELSE IF ReadU16(ReadU16(decoded.data).rest).v
                \notin DOMAIN systems[ReadU16(decoded.data).v].messages
    THEN systems
    ELSE [systems EXCEPT
            ![ReadU16(decoded.data).v].messages[
                ReadU16(ReadU16(decoded.data).rest).v].arguments =
                    ReadArguments(@, ReadU16(ReadU16(decoded.data).rest).rest,
                                  systems[ReadU16(decoded.data).v].ulog_strings).args]

\* the registry once a frame was handled: `systems` is only read, and
\* formatted_string takes `&self` and reads the values into a clone of the
\* arguments
RegistryAfterFrame(systems, decoded) == systems

\* an iteration whose read_until returns a frame: its last byte is cut off,
\* the rest is decoded and handled; a failure is reported on stderr, a
\* panic ends the process with exit code 101
IterFrame ==
    /\ m_pc = "loop"
    /\ Remaining # <<>>
    /\ m_buf' = NextFrame
    /\ m_pos' = m_pos + Len(NextFrame)
    /\ \E decoded \in {[ok |-> FALSE, data |-> <<>>]}
                        \cup {[ok |-> TRUE, data |-> p] : p \in LoopPayloads},
          fmt_ok \in BOOLEAN :
          LET raw == DecoderInput(NextFrame)
              it == HandleFrame(m_systems, decoded, fmt_ok)
          IN  /\ m_last' = it
              /\ m_systems' = RegistryAfterFrame(m_systems, decoded)
              /\ IF it.result = "Panic"
                 THEN /\ m_pc' = "panicked"
                      /\ m_exit' = 101
                      /\ UNCHANGED m_out
                 ELSE /\ UNCHANGED <<m_pc, m_exit>>
                      /\ m_out' = Append(m_out,
                                    IF it.result = "Ok"
                                    THEN Printed("stdout", "record", raw)
                                    ELSE Printed("stderr", "diag", raw))
    /\ UNCHANGED <<m_files, m_wire, m_timeouts, m_errors, m_result>>
    /\ UNCHANGED <<argVars, elfVars, fmtVars, splitVars, symVars>>

\* main: an Err of main_inner is printed with its backtrace; main returns
MainExit ==
    /\ m_pc = "returned"
    /\ m_out' = IF m_result.kind = "Ok" THEN m_out
                ELSE Append(m_out, Printed("stderr", "fatal", <<>>))
    /\ m_exit' = 0
    /\ m_pc' = "exited"
    /\ UNCHANGED <<m_files, m_systems, m_wire, m_pos, m_buf, m_last,
                   m_timeouts, m_errors, m_result>>
    /\ UNCHANGED <<argVars, elfVars, fmtVars, splitVars, symVars>>

Next ==
    \/ OpenSource \/ OpenSourceFail \/ LoadElf \/ EnterLoop
    \/ IterTimedOut \/ IterReadError \/ IterEof \/ IterFrame
    \/ MainExit

Spec == MainInit /\ [][Next]_vars

(***************************************************************************)
(* SpecElf: attempt_load_elf from the members of the `level` and           *)
(* `argument` sub-sections on.  The members carry the fields their names   *)
(* split into; the type id of an argument is the byte of the section at    *)
(* the member's address.                                                   *)
(***************************************************************************)
\* the texts of the model in the order of String's Ord
StrRank == ("a" :> 1 @@ "b" :> 2 @@ "main.c" :> 3)

\* MessageIdentifier(Location { file, line }, format)
MessageIdentifier(file, line, format) ==
    [location |-> [file |-> file, line |-> line], format |-> format]

Identifiers ==
    {MessageIdentifier("main.c", 10, "a"),
     MessageIdentifier("main.c", 10, "b"),
     MessageIdentifier("main.c", 20, "a")}

\* #[derive(Ord)] on MessageIdentifier and on Location: field by field
IdentifierLess(x, y) ==
    \/ StrRank[x.location.file] < StrRank[y.location.file]
    \/ /\ x.location.file = y.location.file
       /\ \/ x.location.line < y.location.line
          \/ /\ x.location.line = y.location.line
             /\ StrRank[x.format] < StrRank[y.format]

\* the order of (MessageIdentifier, usize)
KeyLess(x, y) ==
    \/ IdentifierLess(x.id, y.id)
    \/ x.id = y.id /\ x.seq < y.seq

\* rel_pos of the `level` members of the model
RelPositions == {0, 4}

\* the type-id byte the section holds at the address of the k-th `argument`
\* member
SectionData == <<248, 4, 242, 6, 1, 3>>

LevelMembers == {[id |-> i, rel_pos |-> r] : i \in Identifiers, r \in RelPositions}
ArgumentMembers == {[id |-> i, seq |-> n] : i \in Identifiers, n \in 0..1}

\* ULogMessage::new for a `level` member: no argument yet
NewMessage(member) ==
    Message(member.rel_pos, member.id.format, member.id.location.file,
            member.id.location.line, "Info", <<>>)

\* collect::<Result<ULogMessageMap, _>>: a later member with the same id
\* replaces the earlier one
RECURSIVE CollectMessages(_)
CollectMessages(level) ==
    IF level = <<>> THEN <<>>
    ELSE LET front == CollectMessages(SubSeq(level, 1, Len(level) - 1))
             last == level[Len(level)]
             kept == [k \in DOMAIN front \ {last.rel_pos} |-> front[k]]
         IN  kept @@ (last.rel_pos :> NewMessage(last))

\* the tuples the `argument` members parse into
ParsedArguments(members) ==
    [k \in 1..Len(members) |->
        [key |-> [id |-> members[k].id, seq |-> members[k].seq],
         argument |-> TryFrom(SectionData[k]).arg]]

\* the identifier a message is sorted and matched by
IdentifierOf(message) ==
    MessageIdentifier(message.location.file, message.location.line, message.format)

Arrangements(n) == {p \in [1..n -> 1..n] : \A i, j \in 1..n : p[i] = p[j] => i = j}

\* what sort_unstable_by may leave: any arrangement in which no element is
\* followed by a lesser one
SortedArguments(args) ==
    {[i \in 1..Len(args) |-> args[p[i]]] : p \in
        {q \in Arrangements(Len(args)) :
            \A i, j \in 1..Len(args) :
                i < j => ~KeyLess(args[q[j]].key, args[q[i]].key)}}

\* values_mut() in any order, left as it comes
UnsortedMessages(messages) ==
    {o \in [1..Cardinality(DOMAIN messages) -> DOMAIN messages] :
        \A i, j \in DOMAIN o : o[i] = o[j] => i = j}

\* values_mut() in any order, then sorted_unstable_by on the identifier
SortedMessages(messages) ==
    {o \in [1..Cardinality(DOMAIN messages) -> DOMAIN messages] :
        /\ \A i, j \in DOMAIN o : o[i] = o[j] => i = j
        /\ \A i, j \in DOMAIN o :
              i < j => ~IdentifierLess(IdentifierOf(messages[o[j]]),
                                       IdentifierOf(messages[o[i]]))}

\* message.arguments_mut().push(argument), with the first argument of a
\* message dropped when a second one is pushed
PushReplacing(messages, id, argument) ==
    [messages EXCEPT ![id].arguments = <<argument>>]

\* message.arguments_mut().push(argument)
PushArgument(messages, id, argument) ==
    [messages EXCEPT ![id].arguments = Append(@, argument)]

ElfInit ==
    /\ e_pc = "level"
    /\ e_level \in SeqsUpTo(LevelMembers, MaxLevel)
    /\ e_argument \in SeqsUpTo(ArgumentMembers, MaxArgument)
    /\ e_messages = <<>>
    /\ e_arguments = <<>>
    /\ e_order = <<>>
    /\ e_ai = 0
    /\ e_mi = 0
    /\ e_result = NotLoaded
    /\ ArgIdle
    /\ MainIdle
    /\ FmtIdle
    /\ SplitIdle
    /\ SymIdle

\* the `level` members become the message map
ParseLevel ==
    /\ e_pc = "level"
    /\ e_messages' = CollectMessages(e_level)
    /\ e_pc' = "argument"
    /\ UNCHANGED <<e_level, e_argument, e_arguments, e_order, e_ai, e_mi, e_result>>
    /\ UNCHANGED <<argVars, mainVars, fmtVars, splitVars, symVars>>

\* the `argument` members become (key, argument) tuples
ParseArguments ==
    /\ e_pc = "argument"
    /\ e_arguments' = ParsedArguments(e_argument)
    /\ e_pc' = "sort_arguments"
    /\ UNCHANGED <<e_level, e_argument, e_messages, e_order, e_ai, e_mi, e_result>>
    /\ UNCHANGED <<argVars, mainVars, fmtVars, splitVars, symVars>>

\* ulog_arguments.sort_unstable_by(..)
SortArguments ==
    /\ e_pc = "sort_arguments"
    /\ e_arguments' \in SortedArguments(e_arguments)
    /\ e_pc' = "sort_messages"
    /\ UNCHANGED <<e_level, e_argument, e_messages, e_order, e_ai, e_mi, e_result>>
    /\ UNCHANGED <<argVars, mainVars, fmtVars, splitVars, symVars>>

\* the peekable iterator over the messages sorted by identifier
SortMessages ==
    /\ e_pc = "sort_messages"
    /\ e_order' \in SortedMessages(e_messages)
    /\ e_ai' = 1
    /\ e_mi' = 1
    /\ e_pc' = "walk"
    /\ UNCHANGED <<e_level, e_argument, e_messages, e_arguments, e_result>>
    /\ UNCHANGED <<argVars, mainVars, fmtVars, splitVars, symVars>>

\* the peeked message is not the argument's: ulog_messages.next()
WalkSkip ==
    /\ e_pc = "walk"
    /\ e_ai <= Len(e_arguments)
    /\ e_mi <= Len(e_order)
    /\ IdentifierOf(e_messages[e_order[e_mi]]) # e_arguments[e_ai].key.id
    /\ e_mi' = e_mi + 1
    /\ UNCHANGED <<e_pc, e_level, e_argument, e_messages, e_arguments, e_order,
                   e_ai, e_result>>
    /\ UNCHANGED <<argVars, mainVars, fmtVars, splitVars, symVars>>

\* the peeked message is the argument's: the argument is pushed on it and
\* the next argument taken
WalkPush ==
    /\ e_pc = "walk"
    /\ e_ai <= Len(e_arguments)
    /\ e_mi <= Len(e_order)
    /\ IdentifierOf(e_messages[e_order[e_mi]]) = e_arguments[e_ai].key.id
    /\ e_messages' = PushArgument(e_messages, e_order[e_mi], e_arguments[e_ai].argument)
    /\ e_ai' = e_ai + 1
    /\ UNCHANGED <<e_pc, e_level, e_argument, e_arguments, e_order, e_mi, e_result>>
    /\ UNCHANGED <<argVars, mainVars, fmtVars, splitVars, symVars>>

\* no message is left for the argument
WalkOrphaned ==
    /\ e_pc = "walk"
    /\ e_ai <= Len(e_arguments)
    /\ e_mi > Len(e_order)
    /\ e_result' = Loaded("OrphanedArguments", NoDictionary)
    /\ e_pc' = "returned"
    /\ UNCHANGED <<e_level, e_argument, e_messages, e_arguments, e_order, e_ai, e_mi>>
    /\ UNCHANGED <<argVars, mainVars, fmtVars, splitVars, symVars>>

\* every argument was processed
WalkBreak ==
    /\ e_pc = "walk"
    /\ e_ai > Len(e_arguments)
    /\ e_pc' = "meta"
    /\ UNCHANGED <<e_level, e_argument, e_messages, e_arguments, e_order,
                   e_ai, e_mi, e_result>>
    /\ UNCHANGED <<argVars, mainVars, fmtVars, splitVars, symVars>>

\* the system id is read from the `meta` sub-section and the dictionary
\* returned
ReturnDictionary ==
    /\ e_pc = "meta"
    /\ \E system_id \in {1, 256} :
          e_result' = Loaded("Ok", SystemInfo(<<>>, e_messages, system_id))
    /\ e_pc' = "returned"
    /\ UNCHANGED <<e_level, e_argument, e_messages, e_arguments, e_order, e_ai, e_mi>>
    /\ UNCHANGED <<argVars, mainVars, fmtVars, splitVars, symVars>>

\* the `meta` sub-section has no system_id symbol
NoSystemId ==
    /\ e_pc = "meta"
    /\ e_result' = Loaded("NoSystemId", NoDictionary)
    /\ e_pc' = "returned"
    /\ UNCHANGED <<e_level, e_argument, e_messages, e_arguments, e_order, e_ai, e_mi>>
    /\ UNCHANGED <<argVars, mainVars, fmtVars, splitVars, symVars>>

NextElf ==
    \/ ParseLevel \/ ParseArguments \/ SortArguments \/ SortMessages
    \/ WalkSkip \/ WalkPush \/ WalkOrphaned \/ WalkBreak
    \/ ReturnDictionary \/ NoSystemId

SpecElf == ElfInit /\ [][NextElf]_vars

(***************************************************************************)
(* SpecSplit: split_segments.  A string is the sequence of its characters; *)
(* the operators index it from 0, as the code does.                        *)
(***************************************************************************)
\* the characters of the model: the double quote, the backslash, the
\* delimiter of the symbol names and a character that is none of them
Chars == {"\"", "\\", "_", "z"}

\* the delimiters of the model: `_` and a character that is not ASCII
Delims == {"_", "U+1F602"}
IsAscii(c) == c # "U+1F602"

Byte(string, i) == string[i + 1]
Slice(string, from, to) == SubSeq(string, from + 1, to)
SliceFrom(string, from) == SubSeq(string, from + 1, Len(string))

\* str::find from index i on, as an index of the whole string; -1 is None
RECURSIVE FindFrom(_, _, _)
FindFrom(string, c, i) ==
    IF i >= Len(string) THEN -1
    ELSE IF Byte(string, i) = c THEN i
    ELSE FindFrom(string, c, i + 1)

\* the parity loop of find_next_quote: `while i > 1`
RECURSIVE QuoteEscaped(_, _, _)
QuoteEscaped(string, i, quote_escaped) ==
    IF i > 1 /\ Byte(string, i - 1) = "\\"
    THEN QuoteEscaped(string, i - 1, ~quote_escaped)
    ELSE quote_escaped

\* the candidate quote is taken whatever stands before it
NextQuoteAnyQuote(string, quote_location) == quote_location

\* the candidate quote is kept or the search goes on behind it
RECURSIVE FindNextQuote(_, _)
NextQuoteAt(string, quote_location) ==
    IF quote_location = -1 THEN -1
    ELSE IF QuoteEscaped(string, quote_location, FALSE)
    THEN FindNextQuote(string, quote_location + 1)
    ELSE quote_location

FindNextQuote(string, start) ==
    IF start >= Len(string) THEN -1
    ELSE NextQuoteAt(string, FindFrom(string, "\"", start))

\* unescaper::unescape on the characters of the model: \\ and \" are the
\* escapes, a backslash before another character or at the end is an error
\* the text taken as it is written, no escape resolved
UnescapeNothing(text) == [ok |-> TRUE, v |-> text]

RECURSIVE Unescape(_)
UnescapedAfter(c, tail) ==
    IF tail.ok THEN [ok |-> TRUE, v |-> <<c>> \o tail.v] ELSE tail

Unescape(text) ==
    IF text = <<>> THEN [ok |-> TRUE, v |-> <<>>]
    ELSE IF text[1] # "\\" THEN UnescapedAfter(text[1], Unescape(Tail(text)))
    ELSE IF Len(text) >= 2 /\ text[2] \in {"\\", "\""}
    THEN UnescapedAfter(text[2], Unescape(SubSeq(text, 3, Len(text))))
    ELSE [ok |-> FALSE, v |-> <<>>]

\* Result<(String, Option<&str>), SplitSegmentError>
SplitOk(segment, rest) == [status |-> "Ok", segment |-> segment, rest |-> rest]
SplitErr(status) == [status |-> status, segment |-> <<>>, rest |-> None]

\* a rest that holds the delimiter alone is taken as the end as well
WithoutDelimOrEmptyTail(rest) ==
    IF Len(rest) <= 1 THEN None ELSE Some(SliceFrom(rest, 1))

\* `if rest.is_empty() { None } else { Some(&rest[1..]) }`
WithoutDelim(rest) == IF rest = <<>> THEN None ELSE Some(SliceFrom(rest, 1))

\* the unquoted branch: segment_end is what find(delim) returned or the
\* length
SplitUnquoted(string, segment_end) ==
    SplitOk(Slice(string, 0, segment_end),
            WithoutDelim(SliceFrom(string, segment_end)))

\* the quoted branch below find_next_quote
SplitUnescaped(unescaped, rest) ==
    IF unescaped.ok THEN SplitOk(unescaped.v, WithoutDelim(rest))
    ELSE SplitErr("UnescapeError")

SplitQuoted(string, delim, end_quote) ==
    IF end_quote = -1 THEN SplitErr("UnbalancedQuotes")
    ELSE IF Len(string) > end_quote + 1 /\ Byte(string, end_quote + 1) # delim
    THEN SplitErr("PartiallyQuotedField")
    ELSE SplitUnescaped(Unescape(Slice(string, 1, end_quote)),
                        SliceFrom(string, end_quote + 1))

SplitSegmentOnce(string, delim) ==
    IF ~IsAscii(delim) THEN SplitErr("NonAsciiDelim")
    ELSE IF string = <<>> THEN SplitOk(<<>>, None)
    ELSE IF Byte(string, 0) # "\""
    THEN SplitUnquoted(string,
                       IF FindFrom(string, delim, 0) = -1 THEN Len(string)
                       ELSE FindFrom(string, delim, 0))
    ELSE SplitQuoted(string, delim, FindNextQuote(string, 1))

\* the loop of split_segments as a function: string is the Option still to
\* be split, result the fields pushed so far
RECURSIVE SplitLoop(_, _, _)
SplitPushed(once, delim, result) ==
    IF once.status # "Ok" THEN SplitResult(once.status, <<>>)
    ELSE SplitLoop(once.rest, delim, Append(result, once.segment))

SplitLoop(string, delim, result) ==
    IF string = None THEN SplitResult("Ok", result)
    ELSE SplitPushed(SplitSegmentOnce(string[1], delim), delim, result)

SplitSegments(string, delim) == SplitLoop(Some(string), delim, <<>>)

SplitInit ==
    /\ s_pc = "loop"
    /\ s_input \in SeqsUpTo(Chars, MaxInput)
    /\ s_delim \in Delims
    /\ s_string = Some(s_input)
    /\ s_result = <<>>
    /\ s_ret = NotSplit
    /\ ArgIdle
    /\ MainIdle
    /\ ElfIdle
    /\ FmtIdle
    /\ SymIdle

\* one turn of the loop: a segment is split off and pushed
SplitOff ==
    /\ s_pc = "loop"
    /\ s_string # None
    /\ SplitSegmentOnce(s_string[1], s_delim).status = "Ok"
    /\ s_result' = Append(s_result, SplitSegmentOnce(s_string[1], s_delim).segment)
    /\ s_string' = SplitSegmentOnce(s_string[1], s_delim).rest
    /\ UNCHANGED <<s_pc, s_input, s_delim, s_ret>>
    /\ UNCHANGED <<argVars, mainVars, elfVars, fmtVars, symVars>>

\* one turn of the loop: split_segment_once fails and `?` returns its error
SplitFail ==
    /\ s_pc = "loop"
    /\ s_string # None
    /\ SplitSegmentOnce(s_string[1], s_delim).status # "Ok"
    /\ s_ret' = SplitResult(SplitSegmentOnce(s_string[1], s_delim).status, <<>>)
    /\ s_pc' = "returned"
    /\ UNCHANGED <<s_input, s_delim, s_string, s_result>>
    /\ UNCHANGED <<argVars, mainVars, elfVars, fmtVars, symVars>>

\* the end of the string was reached: Ok(result)
SplitBreak ==
    /\ s_pc = "loop"
    /\ s_string = None
    /\ s_ret' = SplitResult("Ok", s_result)
    /\ s_pc' = "returned"
    /\ UNCHANGED <<s_input, s_delim, s_string, s_result>>
    /\ UNCHANGED <<argVars, mainVars, elfVars, fmtVars, symVars>>

NextSplit == SplitOff \/ SplitFail \/ SplitBreak

SpecSplit == SplitInit /\ [][NextSplit]_vars

(***************************************************************************)
(* SpecSym: attempt_load_elf from the symbols of the .ulog section on: the *)
(* sub-sections and their members, the severity of a message, the names   *)
(* of the members, the ids and the system id.  A name is the sequence of   *)
(* its characters.                                                         *)
(***************************************************************************)
\* (sym, name): a symbol of the .ulog section and its name
Symbol(st_value, name) == [st_value |-> st_value, name |-> name]

\* "_sulog" and "_eulog", what the names of the markers start with
SulogPrefix == <<"_", "s", "u", "l", "o", "g">>
EulogPrefix == <<"_", "e", "u", "l", "o", "g">>

\* "_sulog_".to_owned() + name and "_eulog_".to_owned() + name
StartSymbol(name) == SulogPrefix \o <<"_">> \o name
EndSymbol(name) == EulogPrefix \o <<"_">> \o name

\* "__ulog_sym_", what the name of a member starts with
SymPrefix == <<"_", "_", "u", "l", "o", "g", "_", "s", "y", "m", "_">>

\* the names of the sub-sections
StringName == <<"s", "t", "r", "i", "n", "g">>
LevelName == <<"l", "e", "v", "e", "l">>
ArgumentName == <<"a", "r", "g", "u", "m", "e", "n", "t">>
MetaName == <<"m", "e", "t", "a">>

\* "system_id", the name of the member that carries the system id
SystemIdName == <<"s", "y", "s", "t", "e", "m", "_", "i", "d">>

\* the names of severity_level_max_ids, in the order of the array
SeverityMarkerNames ==
    <<EndSymbol(LevelName \o <<"_", "e", "m", "e", "r", "g", "e", "n", "c", "y">>),
      EndSymbol(LevelName \o <<"_", "a", "l", "e", "r", "t">>),
      EndSymbol(LevelName \o <<"_", "c", "r", "i", "t", "i", "c", "a", "l">>),
      EndSymbol(LevelName \o <<"_", "e", "r", "r", "o", "r">>),
      EndSymbol(LevelName \o <<"_", "w", "a", "r", "n", "i", "n", "g">>),
      EndSymbol(LevelName \o <<"_", "n", "o", "t", "i", "c", "e">>),
      EndSymbol(LevelName \o <<"_", "i", "n", "f", "o">>),
      EndSymbol(LevelName \o <<"_", "d", "e", "b", "u", "g">>),
      EndSymbol(LevelName \o <<"_", "t", "r", "a", "c", "e">>)>>

\* the markers of the images of the model: `meta` is [0, 2), `argument`
\* [2, 4), `string` [4, 5) and `level` [5, 65544); the partitions of `level`
\* end at 6, 7, 8, 9, 10, 11, 12, 13 and, for trace, at 65542
MarkerSymbols ==
    <<Symbol(0, StartSymbol(MetaName)), Symbol(2, EndSymbol(MetaName)),
      Symbol(2, StartSymbol(ArgumentName)), Symbol(4, EndSymbol(ArgumentName)),
      Symbol(4, StartSymbol(StringName)), Symbol(5, EndSymbol(StringName)),
      Symbol(5, StartSymbol(LevelName)),
      Symbol(6, SeverityMarkerNames[1]), Symbol(7, SeverityMarkerNames[2]),
      Symbol(8, SeverityMarkerNames[3]), Symbol(9, SeverityMarkerNames[4]),
      Symbol(10, SeverityMarkerNames[5]), Symbol(11, SeverityMarkerNames[6]),
      Symbol(12, SeverityMarkerNames[7]), Symbol(13, SeverityMarkerNames[8]),
      Symbol(65542, SeverityMarkerNames[9]),
      Symbol(65544, EndSymbol(LevelName))>>

\* section_data: the leading bytes of the section, indexed by address
ImageData == <<1, 0, 248, 0, 0, 0, 0, 0, 0, 0, 0, 0, 0, 0, 0, 0>>

\* the addresses and the names of the other symbols of the model
MemberAddresses == {0, 2, 3, 4, 10, 65541, 65542}
MemberNames ==
    {SymPrefix \o <<"a", "_", "7", "_", "h">>,
     SymPrefix \o <<"a", "_", "7", "_", "h", "_", "a", "r", "g", "_", "0">>,
     SymPrefix \o SystemIdName,
     SymPrefix \o <<"a", "_", "x", "_", "h">>,
     SymPrefix \o <<"a", "_", "7", "_", "h", "_", "a", "r", "x", "_", "0">>,
     SymPrefix \o <<"a", "_", "7", "_", "h", "_", "a", "r", "g", "_", "x">>,
     SymPrefix \o <<"a", "_", "+", "7", "_", "h">>}
MemberSymbols == {Symbol(a, n) : a \in MemberAddresses, n \in MemberNames}

\* the symbols of the .ulog section, in the order of the symbol table
SymbolsOf(members) == MarkerSymbols \o members

\* str::starts_with and str::strip_prefix
StartsWith(name, prefix) ==
    Len(name) >= Len(prefix) /\ SubSeq(name, 1, Len(prefix)) = prefix
StripPrefix(name, prefix) ==
    IF StartsWith(name, prefix)
    THEN Some(SubSeq(name, Len(prefix) + 1, Len(name)))
    ELSE None

\* ulog_section_markers
UlogSectionMarkers(symbols) ==
    SelectSeq(symbols, LAMBDA x : \/ StartsWith(x.name, SulogPrefix)
                                  \/ StartsWith(x.name, EulogPrefix))

\* get_ulog_section_marker: the address of the first marker of that name,
\* -1 for MissingSymbol
NamedLike(symbols, name) == SelectSeq(symbols, LAMBDA x : x.name = name)
FirstAddress(found) == IF found = <<>> THEN -1 ELSE found[1].st_value
GetUlogSectionMarker(markers, name) == FirstAddress(NamedLike(markers, name))

\* ElfSymbol { symbol, name, rel_pos }
ElfSymbol(symbol, name, rel_pos) ==
    [symbol |-> symbol, name |-> name, rel_pos |-> rel_pos]

\* the range taken with its end
InRangeInclusive(symbols, start, end) ==
    SelectSeq(symbols, LAMBDA x : start <= x.st_value /\ x.st_value <= end)

\* range.contains(&x.0.st_value), then strip_prefix("__ulog_sym_")
InRange(symbols, start, end) ==
    SelectSeq(symbols, LAMBDA x : start <= x.st_value /\ x.st_value < end)
Prefixed(symbols) ==
    SelectSeq(symbols, LAMBDA x : StripPrefix(x.name, SymPrefix) # None)
StrippedOf(symbols, start) ==
    [k \in 1..Len(symbols) |->
        ElfSymbol(symbols[k], StripPrefix(symbols[k].name, SymPrefix)[1],
                  symbols[k].st_value - start)]
SectionSymbols(symbols, start, end) ==
    StrippedOf(Prefixed(InRange(symbols, start, end)), start)

\* get_ulog_section: Ok(section_symbols) or MissingSymbol
SectionBetween(symbols, start, end) ==
    IF start = -1 \/ end = -1 THEN [ok |-> FALSE, members |-> <<>>]
    ELSE [ok |-> TRUE, members |-> SectionSymbols(symbols, start, end)]
GetUlogSection(symbols, markers, name) ==
    SectionBetween(symbols, GetUlogSectionMarker(markers, StartSymbol(name)),
                   GetUlogSectionMarker(markers, EndSymbol(name)))

\* severity_level_max_ids
SeverityLevelMaxIds(markers) ==
    [i \in 1..9 |-> GetUlogSectionMarker(markers, SeverityMarkerNames[i])]

\* impl TryFrom<usize> for SeverityLevel; "none" is UnknownValue
SeverityTryFrom(value) ==
    IF value = 0 THEN "Emergency"
    ELSE IF value = 1 THEN "Alert"
    ELSE IF value = 2 THEN "Critical"
    ELSE IF value = 3 THEN "Error"
    ELSE IF value = 4 THEN "Warning"
    ELSE IF value = 5 THEN "Notice"
    ELSE IF value = 6 THEN "Info"
    ELSE IF value = 7 THEN "Debug"
    ELSE IF value = 8 THEN "Trace"
    ELSE "none"

\* the first index whose marker lies at the address or above it
GetSeverityLevelInclusive(max_ids, id) ==
    IF \A i \in 1..Len(max_ids) : ~(id <= max_ids[i]) THEN "none"
    ELSE SeverityTryFrom(
             (CHOOSE i \in 1..Len(max_ids) :
                 /\ id <= max_ids[i]
                 /\ \A j \in 1..(i - 1) : ~(id <= max_ids[j])) - 1)

\* get_severity_level: the first index whose marker lies above the address;
\* "none" is NoMatchingLogLevel
GetSeverityLevel(max_ids, id) ==
    IF \A i \in 1..Len(max_ids) : ~(id < max_ids[i]) THEN "none"
    ELSE SeverityTryFrom(
             (CHOOSE i \in 1..Len(max_ids) :
                 /\ id < max_ids[i]
                 /\ \A j \in 1..(i - 1) : ~(id < max_ids[j])) - 1)

\* usize::from_str: an optional `+`, then one decimal digit or more; the
\* numerals of the model stay far below usize::MAX
DigitValue ==
    ("0" :> 0 @@ "1" :> 1 @@ "2" :> 2 @@ "3" :> 3 @@ "4" :> 4 @@ "5" :> 5
    @@ "6" :> 6 @@ "7" :> 7 @@ "8" :> 8 @@ "9" :> 9)
RECURSIVE DigitsValue(_, _)
DigitsValue(digits, acc) ==
    IF digits = <<>> THEN acc
    ELSE DigitsValue(Tail(digits), acc * 10 + DigitValue[digits[1]])
\* usize::from_str without the optional `+`
ParseUsizeDigitsOnly(src) ==
    IF src = <<>> \/ \E i \in 1..Len(src) : src[i] \notin DOMAIN DigitValue
    THEN [ok |-> FALSE, v |-> 0]
    ELSE [ok |-> TRUE, v |-> DigitsValue(src, 0)]

Unsigned(src) == IF src # <<>> /\ src[1] = "+" THEN Tail(src) ELSE src
ParseUsize(src) ==
    IF \/ Unsigned(src) = <<>>
       \/ \E i \in 1..Len(Unsigned(src)) : Unsigned(src)[i] \notin DOMAIN DigitValue
    THEN [ok |-> FALSE, v |-> 0]
    ELSE [ok |-> TRUE, v |-> DigitsValue(Unsigned(src), 0)]

\* EndianParse::parse_u8_at and parse_u16_at on the section: the bytes at
\* the offset, or an error when the section ends before them
ParseU8At(offset, data) ==
    IF offset + 1 > Len(data) THEN [ok |-> FALSE, v |-> 0]
    ELSE [ok |-> TRUE, v |-> data[offset + 1]]

\* the two bytes read big-endian whatever the image is
ParseU16AtBigEndian(endianness, offset, data) ==
    IF offset + 2 > Len(data) THEN [ok |-> FALSE, v |-> 0]
    ELSE [ok |-> TRUE, v |-> data[offset + 1] * 256 + data[offset + 2]]

ParseU16At(endianness, offset, data) ==
    IF offset + 2 > Len(data) THEN [ok |-> FALSE, v |-> 0]
    ELSE IF endianness = "little"
    THEN [ok |-> TRUE, v |-> data[offset + 1] + data[offset + 2] * 256]
    ELSE [ok |-> TRUE, v |-> data[offset + 1] * 256 + data[offset + 2]]

\* Result<_, ElfSymbolParseError> of the closure run on one member
Parsed(v) == [ok |-> TRUE, kind |-> "Ok", v |-> v]
Rejected(kind) == [ok |-> FALSE, kind |-> kind, v |-> <<>>]

\* ULogString::new
NewULogString(id, string, file, line) ==
    [id |-> id, string |-> string, location |-> [file |-> file, line |-> line]]

\* `x.rel_pos as u16`
RelPosAsU16(rel_pos) == rel_pos % 65536

\* the closure of the `string` members on its segments
StringOfSegments(x, segments) ==
    IF segments.status # "Ok" THEN Rejected("SplitSegment")
    ELSE IF Len(segments.fields) # 3 THEN Rejected("SegmentCountMismatch")
    ELSE IF ~ParseUsize(segments.fields[2]).ok THEN Rejected("InvalidInteger")
    ELSE Parsed(NewULogString(RelPosAsU16(x.rel_pos), segments.fields[3],
                              segments.fields[1],
                              ParseUsize(segments.fields[2]).v))
ParseStringMember(x) == StringOfSegments(x, SplitSegments(x.name, "_"))

\* the closure of the `level` members on its segments; template_ok is what
\* FormatString::from_string makes of the format
MessageOfSegments(x, segments, max_ids, template_ok) ==
    IF segments.status # "Ok" THEN Rejected("SplitSegment")
    ELSE IF Len(segments.fields) # 3 THEN Rejected("SegmentCountMismatch")
    ELSE IF ~template_ok THEN Rejected("TemplateParse")
    ELSE IF ~ParseUsize(segments.fields[2]).ok THEN Rejected("InvalidInteger")
    ELSE IF GetSeverityLevel(max_ids, x.symbol.st_value) = "none"
    THEN Rejected("NoMatchingLogLevel")
    ELSE Parsed(Message(RelPosAsU16(x.rel_pos), segments.fields[3],
                        segments.fields[1], ParseUsize(segments.fields[2]).v,
                        GetSeverityLevel(max_ids, x.symbol.st_value), <<>>))
ParseMessageMember(x, max_ids, template_ok) ==
    MessageOfSegments(x, SplitSegments(x.name, "_"), max_ids, template_ok)

\* the closure of the `argument` members on its segments
ArgumentOfSegments(sym, segments, data) ==
    IF segments.status # "Ok" THEN Rejected("SplitSegment")
    ELSE IF Len(segments.fields) # 5 THEN Rejected("SegmentCountMismatch")
    ELSE IF segments.fields[4] # <<"a", "r", "g">>
    THEN Rejected("NonArgumentInArguments")
    ELSE IF ~ParseU8At(sym.symbol.st_value, data).ok THEN Rejected("ElfParse")
    ELSE IF ~TryFrom(ParseU8At(sym.symbol.st_value, data).v).ok
    THEN Rejected("ULogArgumentParse")
    ELSE IF ~ParseUsize(segments.fields[2]).ok THEN Rejected("InvalidInteger")
    ELSE IF ~ParseUsize(segments.fields[5]).ok THEN Rejected("InvalidInteger")
    ELSE Parsed([key |-> [id |-> MessageIdentifier(segments.fields[1],
                                     ParseUsize(segments.fields[2]).v,
                                     segments.fields[3]),
                          seq |-> ParseUsize(segments.fields[5]).v],
                 argument |-> TryFrom(ParseU8At(sym.symbol.st_value, data).v).arg])
ParseArgumentMember(sym, data) ==
    ArgumentOfSegments(sym, SplitSegments(sym.name, "_"), data)

\* collect::<Result<_, _>>: the first member that fails, 0 when none does
FirstRejected(results) ==
    IF \A k \in 1..Len(results) : results[k].ok THEN 0
    ELSE CHOOSE k \in 1..Len(results) :
             ~results[k].ok /\ \A j \in 1..(k - 1) : results[j].ok

\* collect into a HashMap keyed by id: a later entry replaces an earlier one
\* of the same id
CollectById(results) ==
    [id \in {results[k].v.id : k \in 1..Len(results)} |->
        results[CHOOSE k \in 1..Len(results) :
                    /\ results[k].v.id = id
                    /\ \A j \in (k + 1)..Len(results) : results[j].v.id # id].v]

\* the order of str: byte by byte, a prefix before what it is a prefix of
CharRank ==
    ("+" :> 43 @@ "0" :> 48 @@ "1" :> 49 @@ "2" :> 50 @@ "3" :> 51
    @@ "4" :> 52 @@ "5" :> 53 @@ "6" :> 54 @@ "7" :> 55 @@ "8" :> 56
    @@ "9" :> 57 @@ "_" :> 95 @@ "a" :> 97 @@ "b" :> 98 @@ "c" :> 99
    @@ "d" :> 100 @@ "e" :> 101 @@ "f" :> 102 @@ "g" :> 103 @@ "h" :> 104
    @@ "i" :> 105 @@ "l" :> 108 @@ "m" :> 109 @@ "n" :> 110 @@ "o" :> 111
    @@ "r" :> 114 @@ "s" :> 115 @@ "t" :> 116 @@ "u" :> 117 @@ "v" :> 118
    @@ "w" :> 119 @@ "x" :> 120 @@ "y" :> 121)
RECURSIVE StrLess(_, _)
StrLess(x, y) ==
    IF y = <<>> THEN FALSE
    ELSE IF x = <<>> THEN TRUE
    ELSE IF x[1] = y[1] THEN StrLess(Tail(x), Tail(y))
    ELSE CharRank[x[1]] < CharRank[y[1]]

\* #[derive(Ord)] on MessageIdentifier and on Location, for names
NamedIdentifierLess(x, y) ==
    \/ StrLess(x.location.file, y.location.file)
    \/ /\ x.location.file = y.location.file
       /\ \/ x.location.line < y.location.line
          \/ /\ x.location.line = y.location.line
             /\ StrLess(x.format, y.format)
NamedKeyLess(x, y) ==
    \/ NamedIdentifierLess(x.id, y.id)
    \/ x.id = y.id /\ x.seq < y.seq

\* what sort_unstable_by may leave of the arguments and of the messages
ArgumentsByKey(args) ==
    {[i \in 1..Len(args) |-> args[p[i]]] : p \in
        {q \in Arrangements(Len(args)) :
            \A i, j \in 1..Len(args) :
                i < j => ~NamedKeyLess(args[q[j]].key, args[q[i]].key)}}
MessagesByIdentifier(messages) ==
    {o \in [1..Cardinality(DOMAIN messages) -> DOMAIN messages] :
        /\ \A i, j \in DOMAIN o : o[i] = o[j] => i = j
        /\ \A i, j \in DOMAIN o :
              i < j => ~NamedIdentifierLess(IdentifierOf(messages[o[j]]),
                                            IdentifierOf(messages[o[i]]))}

\* the loop that attributes every argument to a message: ai is the next
\* argument, mi the peeked message
RECURSIVE AttributeArguments(_, _, _, _, _)
AttributeArguments(messages, order, arguments, ai, mi) ==
    IF ai > Len(arguments) THEN [ok |-> TRUE, messages |-> messages]
    ELSE IF mi > Len(order) THEN [ok |-> FALSE, messages |-> messages]
    ELSE IF IdentifierOf(messages[order[mi]]) = arguments[ai].key.id
    THEN AttributeArguments(PushArgument(messages, order[mi], arguments[ai].argument),
                            order, arguments, ai + 1, mi)
    ELSE AttributeArguments(messages, order, arguments, ai, mi + 1)

\* the system id is read and the dictionary returned
SystemIdAt(endianness, named, data, ulog_strings, ulog_messages) ==
    IF named = <<>> THEN LoadFailed("NoSystemId", <<>>)
    ELSE IF ~ParseU16At(endianness, named[1].symbol.st_value, data).ok
    THEN LoadFailed("ElfParse", <<>>)
    ELSE LoadOk(SystemInfo(ulog_strings, ulog_messages,
                    ParseU16At(endianness, named[1].symbol.st_value, data).v))
LoadSystemId(endianness, ulog_meta, data, ulog_strings, ulog_messages) ==
    IF ~ulog_meta.ok THEN LoadFailed("MissingSymbol", <<>>)
    ELSE SystemIdAt(endianness, NamedLike(ulog_meta.members, SystemIdName),
                    data, ulog_strings, ulog_messages)

\* the arguments are attributed in one of the orders the two sorts may leave
Attributed(endianness, ulog_meta, data, ulog_strings, walk) ==
    IF ~walk.ok
    THEN LoadFailed("OrphanedArguments", <<>>)
    ELSE LoadSystemId(endianness, ulog_meta, data, ulog_strings, walk.messages)
LoadAttributed(endianness, ulog_meta, data, ulog_strings, ulog_messages, arguments) ==
    {Attributed(endianness, ulog_meta, data, ulog_strings,
                AttributeArguments(ulog_messages, order, sorted, 1, 1)) :
        order \in MessagesByIdentifier(ulog_messages),
        sorted \in ArgumentsByKey(arguments)}

\* the `argument` members are parsed
ArgumentsParsed(endianness, ulog_meta, data, ulog_strings, ulog_messages, members, results) ==
    IF FirstRejected(results) # 0
    THEN {LoadFailed(results[FirstRejected(results)].kind,
                     members[FirstRejected(results)].name)}
    ELSE LoadAttributed(endianness, ulog_meta, data, ulog_strings, ulog_messages,
                        [k \in 1..Len(results) |-> results[k].v])
LoadArguments(endianness, symbols, markers, data, ulog_strings, ulog_messages, section) ==
    IF ~section.ok THEN {LoadFailed("MissingSymbol", <<>>)}
    ELSE ArgumentsParsed(endianness, GetUlogSection(symbols, markers, MetaName),
                         data, ulog_strings, ulog_messages, section.members,
                         [k \in 1..Len(section.members) |->
                             ParseArgumentMember(section.members[k], data)])

\* the `level` members are parsed
MessagesParsed(endianness, symbols, markers, data, ulog_strings, members, results) ==
    IF FirstRejected(results) # 0
    THEN {LoadFailed(results[FirstRejected(results)].kind,
                     members[FirstRejected(results)].name)}
    ELSE LoadArguments(endianness, symbols, markers, data, ulog_strings,
                       CollectById(results),
                       GetUlogSection(symbols, markers, ArgumentName))
LoadMessages(endianness, symbols, markers, max_ids, data, template_ok, ulog_strings, section) ==
    IF ~section.ok THEN {LoadFailed("MissingSymbol", <<>>)}
    ELSE MessagesParsed(endianness, symbols, markers, data, ulog_strings,
                        section.members,
                        [k \in 1..Len(section.members) |->
                            ParseMessageMember(section.members[k], max_ids,
                                               template_ok)])

\* the `string` members are parsed
StringsParsed(endianness, symbols, markers, max_ids, data, template_ok, members, results) ==
    IF FirstRejected(results) # 0
    THEN {LoadFailed(results[FirstRejected(results)].kind,
                     members[FirstRejected(results)].name)}
    ELSE LoadMessages(endianness, symbols, markers, max_ids, data, template_ok,
                      CollectById(results),
                      GetUlogSection(symbols, markers, LevelName))
LoadStrings(endianness, symbols, markers, max_ids, data, template_ok, section) ==
    IF ~section.ok THEN {LoadFailed("MissingSymbol", <<>>)}
    ELSE StringsParsed(endianness, symbols, markers, max_ids, data, template_ok,
                       section.members,
                       [k \in 1..Len(section.members) |->
                           ParseStringMember(section.members[k])])

\* attempt_load_elf from the symbols of the .ulog section on: every result
\* the load may return
LoadMarked(endianness, symbols, markers, max_ids, data, template_ok) ==
    IF \E i \in 1..Len(max_ids) : max_ids[i] = -1
    THEN {LoadFailed("MissingSymbol", <<>>)}
    ELSE LoadStrings(endianness, symbols, markers, max_ids, data, template_ok,
                     GetUlogSection(symbols, markers, StringName))
LoadFrom(endianness, symbols, markers, data, template_ok) ==
    LoadMarked(endianness, symbols, markers, SeverityLevelMaxIds(markers), data,
               template_ok)
AttemptLoadSymbols(endianness, symbols, data, template_ok) ==
    LoadFrom(endianness, symbols, UlogSectionMarkers(symbols), data, template_ok)

SymInit ==
    /\ y_pc = "open"
    /\ y_endianness \in {"little", "big"}
    /\ y_symbols \in SeqsUpTo(MemberSymbols, MaxSymbols)
    /\ y_template_ok = TRUE
    /\ y_result = NoLoad
    /\ ArgIdle
    /\ MainIdle
    /\ ElfIdle
    /\ FmtIdle
    /\ SplitIdle

\* attempt_load_elf returns
LoadSymbols ==
    /\ y_pc = "open"
    /\ y_template_ok' \in BOOLEAN
    /\ y_result' \in AttemptLoadSymbols(y_endianness, SymbolsOf(y_symbols),
                                        ImageData, y_template_ok')
    /\ y_pc' = "returned"
    /\ UNCHANGED <<y_endianness, y_symbols>>
    /\ UNCHANGED <<argVars, mainVars, elfVars, fmtVars, splitVars>>

NextSym == LoadSymbols

SpecSym == SymInit /\ [][NextSym]_vars

(***************************************************************************)
(* Claims about the argument model (checked under SpecArg).               *)
(***************************************************************************)
Drop(bs, n) == SubSeq(bs, n + 1, Len(bs))
Fill(n, b) == [i \in 1..n |-> b]

\* a variable-width integer whose size is smaller than its destination
IsShortVarInt(arg) ==
    \/ arg.kind \in {"Int32", "UInt32"} /\ arg.size = 3
    \/ arg.kind \in {"Int64", "UInt64"} /\ arg.size \in 5..7

\* the big-endian integer formed by bs, extended to the destination of arg:
\* a number for Int32, the image in the destination width otherwise
ExtendedValue(arg, bs) ==
    CASE arg.kind = "Int32"  ->
             I32Value(Fill(4 - Len(bs), IF bs[1] >= 128 THEN 255 ELSE 0) \o bs)
      [] arg.kind = "UInt32" -> Fill(4 - Len(bs), 0) \o bs
      [] arg.kind = "Int64"  -> Fill(8 - Len(bs), IF bs[1] >= 128 THEN 255 ELSE 0) \o bs
      [] arg.kind = "UInt64" -> Fill(8 - Len(bs), 0) \o bs

\* C1 (as claimed): a short variable-width integer read from a reader that
\* holds at least `size` bytes succeeds with the big-endian value of the
\* first `size` bytes, sign-extended when signed and zero-extended otherwise.
C1_ShortIntDecoded ==
    (a_pc = "read" /\ IsShortVarInt(a_arg) /\ Len(a_reader) >= a_arg.size)
        => /\ a_res.status = "Ok"
           /\ a_res.arg.value
                = Some(ExtendedValue(a_arg, SubSeq(a_reader, 1, a_arg.size)))

\* the number of bytes of the wire encoding of arg at the head of reader,
\* -1 when the reader does not hold a whole encoding
WireLen(arg, reader) ==
    LET need ==
          CASE arg.kind \in {"Int8", "UInt8", "Bool"} -> 1
            [] arg.kind \in {"Int16", "UInt16", "ULogString"} -> 2
            [] arg.kind \in {"Int32", "Int64", "UInt32", "UInt64"} -> arg.size
            [] arg.kind = "Float" -> 4
            [] arg.kind = "Double" -> 8
            [] arg.kind = "Slice" ->
                 IF Len(reader) < 4 THEN 4
                 ELSE IF U32Capped(SubSeq(reader, 1, 4)) > Len(reader) THEN Len(reader) + 1
                 ELSE 4 + U32Capped(SubSeq(reader, 1, 4))
            [] arg.kind = "String" ->
                 IF FirstNul(reader, 1) = 0 THEN Len(reader) + 1
                 ELSE FirstNul(reader, 1)
    IN  IF need > Len(reader) THEN -1 ELSE need

\* C2 (as claimed): a read from a reader that holds a whole wire encoding
\* does not fail for want of bytes and leaves in the reader exactly the
\* bytes that follow the encoding.
C2_ConsumesWireEncoding ==
    (a_pc = "read" /\ WireLen(a_arg, a_reader) >= 0)
        => /\ a_res.status \in {"Ok", "MissingStringId"}
           /\ a_res.rest = Drop(a_reader, WireLen(a_arg, a_reader))

\* the skeleton the claim's table gives for a type id
C3Kind(b) ==
    CASE b = 1 -> "Slice"   [] b = 2 -> "Float"   [] b = 3 -> "Double"
      [] b = 4 -> "String"  [] b = 5 -> "Bool"    [] b = 6 -> "ULogString"
      [] b = 240 -> "Int8"  [] b = 241 -> "Int16"
      [] b \in {242, 243} -> "Int32"
      [] b \in {244, 245, 246, 247} -> "Int64"
      [] b = 248 -> "UInt8" [] b = 249 -> "UInt16"
      [] b \in {250, 251} -> "UInt32"
      [] b \in {252, 253, 254, 255} -> "UInt64"
C3Size(b) ==
    CASE b \in 242..247 -> b - 239
      [] b \in 250..255 -> b - 247
      [] OTHER -> 0
C3Invalid == {0} \cup 7..239

\* C3: try_from maps every type id as the table of the claim says, with an
\* unset value, and fails with InvalidTypeId carrying the id on 0 and 7..239.
C3_TryFromTable ==
    /\ a_pc \in {"built", "read"} =>
          /\ a_type \notin C3Invalid
          /\ a_arg = [kind |-> C3Kind(a_type), size |-> C3Size(a_type), value |-> None]
    /\ a_pc = "invalid" => (a_type \in C3Invalid /\ a_err = a_type)
    /\ a_pc # "new" => (a_pc = "invalid" <=> a_type \in C3Invalid)

\* C3 witness: the widest unsigned integer was built from type id 255
C3_Witness ==
    a_pc = "built" /\ a_type = 255 /\ a_arg.kind = "UInt64" /\ a_arg.size = 8

\* C4 (as claimed): a read from a reader that holds less than the wire
\* encoding (a String without its NUL included) returns the Io error.
C4_ShortReadIsIo ==
    (a_pc = "read" /\ WireLen(a_arg, a_reader) < 0) => a_res.status = "Io"

(***************************************************************************)
(* Claims about the frame loop and the exit of the process (under Spec).   *)
(***************************************************************************)
\* the frames of a byte stream as read_until(0x00) cuts them, terminators
\* included
RECURSIVE Frames(_)
Frames(w) ==
    IF w = <<>> THEN <<>>
    ELSE <<ReadUntilNul(w).data>> \o Frames(ReadUntilNul(w).rest)

\* a frame without its last byte
Body(frame) == SubSeq(frame, 1, Len(frame) - 1)

\* every frame of the stream ends with its terminator
ZeroTerminated(w) == w = <<>> \/ w[Len(w)] = 0

\* what the loop printed for frames and failed reads, in order
IsOutcome(e) == e.kind \in {"record", "diag"}
FrameOutcomes == SelectSeq(m_out, IsOutcome)

\* the number of frames the reader has consumed whole
FramesConsumed == Len(Frames(SubSeq(m_wire, 1, m_pos)))

\* C5 (as claimed): whatever a frame holds, the iteration that handled it
\* leaves the loop running and has printed one record, or one diagnostic on
\* the error stream when the frame failed.
C5_FrameNeverEndsLoop ==
    m_last.step = "frame"
        => /\ m_pc \in {"loop", "returned", "exited"}
           /\ m_exit # 101
           /\ FrameOutcomes # <<>>
           /\ FrameOutcomes[Len(FrameOutcomes)].stream
                = (IF m_last.result = "Ok" THEN "stdout" ELSE "stderr")

\* C6 (as claimed): on a stream of zero-terminated frames whose reads do not
\* fail, every frame consumed has produced exactly one outcome, the outcomes
\* are in the order of the frames, and each one is that of the bytes of its
\* own frame.
C6_OneOutcomePerFrameInOrder ==
    (m_pc \in {"loop", "returned", "exited", "panicked"}
       /\ ZeroTerminated(m_wire) /\ m_timeouts = 0 /\ m_errors = 0)
        => /\ Len(FrameOutcomes) = FramesConsumed
           /\ \A i \in 1..Len(FrameOutcomes) :
                 FrameOutcomes[i].raw = Body(Frames(m_wire)[i])

\* C7 (as claimed): with reads that time out (and none that fails
\* otherwise), a timed-out iteration leaves the loop running and every
\* outcome is still that of all the bytes of its frame.
C7_TimeoutLosesNothing ==
    (m_pc \in {"loop", "returned", "exited", "panicked"} /\ m_errors = 0)
        => /\ m_last.step = "timeout" => m_pc = "loop"
           /\ Len(FrameOutcomes) <= Len(Frames(m_wire))
           /\ \A i \in 1..Len(FrameOutcomes) :
                 FrameOutcomes[i].raw = Body(Frames(m_wire)[i])

\* C8 (as claimed): once the loop has been entered, it is only left by an
\* iteration that read no byte at the end of the stream, and main_inner then
\* returns Ok.
C8_OnlyEofEndsLoop ==
    (m_last.step # "none" /\ m_pc # "loop")
        => /\ m_last.step = "eof"
           /\ m_pos = Len(m_wire)
           /\ m_result.kind = "Ok"

\* C9 (as claimed): the exit code is 0 when main_inner returned Ok and
\* non-zero when it returned a fatal error.
C9_ExitCode ==
    m_pc = "exited"
        => /\ m_result.kind = "Ok" => m_exit = 0
           /\ m_result.kind # "Ok" => m_exit # 0


(***************************************************************************)
(* Claims about the dictionary loader (under SpecElf).                     *)
(***************************************************************************)
\* the places of a dictionary's arguments lists that hold the argument of
\* the k-th `argument` member
Owners(messages, k) ==
    {pl \in (DOMAIN messages) \X (1..MaxArgument + 1) :
        /\ pl[2] <= Len(messages[pl[1]].arguments)
        /\ messages[pl[1]].arguments[pl[2]] = TryFrom(SectionData[k]).arg}

RECURSIVE TotalArguments(_, _)
TotalArguments(messages, ids) ==
    IF ids = {} THEN 0
    ELSE LET id == CHOOSE x \in ids : TRUE
         IN  Len(messages[id].arguments) + TotalArguments(messages, ids \ {id})

\* C10: in a dictionary attempt_load_elf returned, every `argument` member
\* is in the arguments list of exactly one message, once, and the lengths of
\* all arguments lists add up to the number of `argument` members.
C10_EachArgumentOwnedOnce ==
    (e_pc = "returned" /\ e_result.kind = "Ok")
        => /\ \A k \in 1..Len(e_argument) :
                 Cardinality(Owners(e_result.system.messages, k)) = 1
           /\ TotalArguments(e_result.system.messages,
                             DOMAIN e_result.system.messages) = Len(e_argument)

\* C10 witness: a dictionary was returned in which two arguments belong to
\* one message
C10_Witness ==
    /\ e_pc = "returned"
    /\ e_result.kind = "Ok"
    /\ \E id \in DOMAIN e_result.system.messages :
          Len(e_result.system.messages[id].arguments) = 2

\* the `argument` member whose argument a place of an arguments list holds:
\* the type ids of SectionData are all different
MemberOf(argument) ==
    CHOOSE k \in 1..Len(SectionData) : TryFrom(SectionData[k]).arg = argument

\* the `argument` members that carry the identifier of a message
MembersOf(message) ==
    {k \in 1..Len(e_argument) : e_argument[k].id = IdentifierOf(message)}

\* C11 (as claimed): in a dictionary attempt_load_elf returned, the
\* arguments list of every message holds exactly the `argument` members that
\* carry the message's (file, line, format-text), in ascending order of
\* their sequence numbers, wherever the members sit in the section.
C11_ArgumentsInSequenceOrder ==
    (e_pc = "returned" /\ e_result.kind = "Ok")
        => \A id \in DOMAIN e_result.system.messages :
              LET message == e_result.system.messages[id]
                  list == message.arguments
              IN  /\ {MemberOf(list[i]) : i \in 1..Len(list)} = MembersOf(message)
                  /\ Len(list) = Cardinality(MembersOf(message))
                  /\ \A i, j \in 1..Len(list) :
                        i < j => e_argument[MemberOf(list[i])].seq
                                   <= e_argument[MemberOf(list[j])].seq

(***************************************************************************)
(* Claims about the registry and the handling of one frame (under Spec).   *)
(***************************************************************************)
\* every entry of the registry is stored under the system id of its
\* dictionary
KeysAreSystemIds ==
    \A id \in DOMAIN m_systems : m_systems[id].system_id = id

\* the turn of the loading loop that takes the next map file
LoadsNextFile == m_pc = "load" /\ m_files # <<>> /\ m_files' = Tail(m_files)

\* the next map file loads and its system id is already registered
NextIsDuplicate ==
    /\ AttemptLoadElf(Head(m_files)).ok
    /\ AttemptLoadElf(Head(m_files)).system.system_id \in DOMAIN m_systems

\* C12: every entry of the registry is keyed by its own system id (so no two
\* entries share one), and a map file whose system id is already registered
\* ends main_inner with DuplicateSystemId carrying that system id and the
\* path of this later file, while no byte of the source has been read; no
\* other map file does.
C12_RegistryKeyedAndDuplicatesRejected ==
    /\ [](KeysAreSystemIds)
    /\ [][LoadsNextFile =>
            IF NextIsDuplicate
            THEN /\ m_pc' = "returned"
                 /\ m_result' = Returned("DuplicateSystemId",
                                   AttemptLoadElf(Head(m_files)).system.system_id,
                                   Head(m_files))
                 /\ m_pos' = 0 /\ m_buf' = <<>> /\ m_last' = NoLast
            ELSE m_result'.kind # "DuplicateSystemId"]_vars

\* C12 witness: c.elf, loaded after a.elf, was rejected for system id 1
C12_Witness ==
    /\ m_pc = "returned"
    /\ m_result = Returned("DuplicateSystemId", 1, "c.elf")
    /\ m_pos = 0
    /\ DOMAIN m_systems = {1}

\* the payload rzcobs::decode returned for the last frame
LastPayload == m_last.data[1]

\* the big-endian u16 at bytes i, i+1 of a payload
U16At(p, i) == p[i] * 256 + p[i + 1]

\* C13: a payload of fewer than 2 bytes fails with SystemIdRead, one of 2 or
\* 3 bytes with MessageIdRead; otherwise the system id is the big-endian u16
\* of bytes 0-1 and the message id that of bytes 2-3: an unregistered system
\* fails with UnknownSystem, a registered system without that message with
\* UnknownMessage, and a message that is found is the one of the frame's own
\* system.
C13_HeaderParseAndLookup ==
    (m_last.step = "frame" /\ m_last.data # None)
        => IF Len(LastPayload) < 2 THEN m_last.result = "SystemIdRead"
           ELSE IF Len(LastPayload) < 4 THEN m_last.result = "MessageIdRead"
           ELSE IF U16At(LastPayload, 1) \notin DOMAIN m_systems
                THEN m_last.result = "UnknownSystem"
           ELSE IF U16At(LastPayload, 3)
                     \notin DOMAIN m_systems[U16At(LastPayload, 1)].messages
                THEN m_last.result = "UnknownMessage"
           ELSE /\ m_last.result \in {"Ok", "Format", "Panic"}
                /\ m_last.message = Some(U16At(LastPayload, 3))
                /\ m_last.result = "Ok"
                     => /\ m_last.line[1].system_id = U16At(LastPayload, 1)
                        /\ [file |-> m_last.line[1].file, line |-> m_last.line[1].line]
                             = m_systems[U16At(LastPayload, 1)]
                                 .messages[U16At(LastPayload, 3)].location

\* C13 witness: with a.elf and b.elf registered, a frame of system 0x0100
\* naming message 1, which only a.elf has, failed with UnknownMessage
C13_Witness ==
    /\ m_last.step = "frame"
    /\ m_last.data = Some(<<1, 0, 0, 1>>)
    /\ DOMAIN m_systems = {1, 256}
    /\ m_last.result = "UnknownMessage"

\* the system and the message the last frame names, and the bytes after the
\* two ids
LastSystem == m_systems[U16At(LastPayload, 1)]
LastMessage == LastSystem.messages[U16At(LastPayload, 3)]
LastArgumentBytes == SubSeq(LastPayload, 5, Len(LastPayload))

\* the last frame names a registered message
LastResolved ==
    /\ m_last.step = "frame"
    /\ m_last.data # None
    /\ Len(LastPayload) >= 4
    /\ U16At(LastPayload, 1) \in DOMAIN m_systems
    /\ U16At(LastPayload, 3) \in DOMAIN LastSystem.messages

\* C14: for a message whose only argument is a ULogString (type id 6) and a
\* payload that holds the two bytes of its id, the value is the string the
\* string map of the frame's own system holds under the big-endian u16 id,
\* and the record is the template fed with that string; when that map has
\* no such id the frame fails with MissingStringId at argument 0.
C14_ULogStringResolved ==
    (/\ LastResolved
     /\ LastMessage.arguments = <<TryFrom(6).arg>>
     /\ Len(LastArgumentBytes) >= 2)
        => IF U16At(LastArgumentBytes, 1) \in DOMAIN LastSystem.ulog_strings
           THEN /\ m_last.result \in {"Ok", "Format"}
                /\ m_last.result = "Format" => m_last.cause = "Format"
                /\ m_last.result = "Ok"
                     => m_last.line[1].text =
                          [format |-> LastMessage.format,
                           args |-> <<Some(LastSystem.ulog_strings[
                                             U16At(LastArgumentBytes, 1)])>>]
           ELSE /\ m_last.result = "Format"
                /\ m_last.cause = "MissingStringId"
                /\ m_last.number = 0

\* C14 witness: b.elf holds `world` at id 0x0010 and `hello %s` with one
\* ULogString argument; the argument bytes 00 10 gave the template `world`
C14_Witness ==
    /\ m_last.step = "frame"
    /\ m_last.data = Some(<<1, 0, 0, 0, 0, 16>>)
    /\ m_last.result = "Ok"
    /\ m_last.line[1].text = [format |-> "hello %s", args |-> <<Some("world")>>]

(***************************************************************************)
(* Claims about formatted_string (under SpecFmt).                          *)
(***************************************************************************)
\* the arguments of the message, as declared
FmtArguments == FmtMessage(f_types).arguments

\* what the reader holds when argument i is reached, every argument before
\* it having been read from it in turn
RECURSIVE ReaderBefore(_)
ReaderBefore(i) ==
    IF i = 1 THEN f_reader
    ELSE ArgRead(FmtArguments[i - 1], ReaderBefore(i - 1), ArgStringMap).rest

\* the read of argument i from that reader
ReadOf(i) == ArgRead(FmtArguments[i], ReaderBefore(i), ArgStringMap)

\* the first argument that cannot be decoded, if there is one
FirstUndecodable ==
    {i \in 1..Len(FmtArguments) :
        /\ ReadOf(i).status # "Ok"
        /\ \A j \in 1..(i - 1) : ReadOf(j).status = "Ok"}

\* C15 (as claimed): formatted_string decodes the arguments in declaration
\* order, each from what the one before left in the reader; when an
\* argument cannot be decoded it returns ULogArgumentRead with the 0-based
\* index of the first such argument and the cause of its read, and has read
\* nothing after it; otherwise the template is fed the decoded values in
\* declaration order.
C15_FirstFailingArgumentReported ==
    f_pc \in {"returned", "panicked"}
        => IF FirstUndecodable = {}
           THEN /\ f_pc = "returned"
                /\ f_res.status \in {"Ok", "Format"}
                /\ f_res.rest = ReaderBefore(Len(FmtArguments) + 1)
                /\ f_res.status = "Ok"
                     => f_res.text[1].args
                          = [i \in 1..Len(FmtArguments) |-> ReadOf(i).arg.value]
           ELSE \A n \in FirstUndecodable :
                /\ f_pc = "returned"
                /\ f_res.status = "ULogArgumentRead"
                /\ f_res.number = n - 1
                /\ f_res.cause = ReadOf(n).status
                /\ f_res.rest = ReadOf(n).rest

(***************************************************************************)
(* Claims about split_segments (under SpecSplit).  The claims count the    *)
(* characters of a field from 1.                                           *)
(***************************************************************************)
\* the field the next turn of the loop splits off starts at the head of this
Pending == s_string[1]

\* the number of consecutive backslashes that end just before position q
BackslashesBefore(x, q) ==
    Cardinality({n \in 1..(q - 1) : \A j \in (q - n)..(q - 1) : x[j] = "\\"})

\* the double quotes after the first character that an even number of
\* backslashes precedes
ClosingQuotes(x) ==
    {q \in 2..Len(x) : x[q] = "\"" /\ BackslashesBefore(x, q) % 2 = 0}

Least(S) == CHOOSE q \in S : \A r \in S : q <= r

\* the delimiters of a string
DelimsIn(x) == {i \in 1..Len(x) : x[i] = s_delim}

\* what is left to split behind a field that ends at position e (its last
\* character or its closing quote)
Behind(x, e) == IF e >= Len(x) THEN None ELSE Some(SubSeq(x, e + 2, Len(x)))

\* the turn pushes the field v and goes on with what is behind position e
Pushes(v, e) ==
    /\ s_pc' = "loop"
    /\ s_result' = Append(s_result, v)
    /\ s_string' = Behind(Pending, e)

\* the turn ends split_segments with an error
FailsWith(status) == s_pc' = "returned" /\ s_ret' = SplitResult(status, <<>>)

\* what the claim says of a field that starts with a double quote
QuotedTurn ==
    IF ClosingQuotes(Pending) = {} THEN FailsWith("UnbalancedQuotes")
    ELSE LET q == Least(ClosingQuotes(Pending))
         IN  IF q < Len(Pending) /\ Pending[q + 1] # s_delim
             THEN FailsWith("PartiallyQuotedField")
             ELSE IF Unescape(SubSeq(Pending, 2, q - 1)).ok
             THEN Pushes(Unescape(SubSeq(Pending, 2, q - 1)).v, q)
             ELSE FailsWith("UnescapeError")

\* and of one that does not: it ends before the first delimiter and is
\* taken as it is written
UnquotedTurn ==
    IF DelimsIn(Pending) = {} THEN Pushes(Pending, Len(Pending))
    ELSE Pushes(SubSeq(Pending, 1, Least(DelimsIn(Pending)) - 1),
                Least(DelimsIn(Pending)) - 1)

SplitOf(input) == s_pc = "returned" /\ s_delim = "_" /\ s_input = input

\* C16: with an ASCII delimiter, a field is handled as quoted exactly when
\* its first character is a double quote: its closing quote is the first
\* later double quote preceded by an even number of consecutive backslashes,
\* its value the unescaped text between the two, delimiters included; a
\* closing quote followed by another character than the delimiter fails
\* with PartiallyQuotedField, no closing quote with UnbalancedQuotes.  So
\* "z_z"_z gives [z_z, z], "z fails UnbalancedQuotes and "z"z fails
\* PartiallyQuotedField.
C16_QuotedFields ==
    /\ [][(s_pc = "loop" /\ s_string # None /\ IsAscii(s_delim))
            => IF Pending # <<>> /\ Pending[1] = "\""
               THEN QuotedTurn
               ELSE UnquotedTurn]_vars
    /\ [](SplitOf(<<"\"", "z", "_", "z", "\"", "_", "z">>)
            => s_ret = SplitResult("Ok", << <<"z", "_", "z">>, <<"z">> >>))
    /\ [](SplitOf(<<"\"", "z">>) => s_ret.status = "UnbalancedQuotes")
    /\ [](SplitOf(<<"\"", "z", "\"", "z">>) => s_ret.status = "PartiallyQuotedField")

\* C16 witness: "z\"_"_z was split into [z"_, z]: the escaped quote did not
\* close the field and the delimiter inside it did not end it
C16_Witness ==
    /\ SplitOf(<<"\"", "z", "\\", "\"", "_", "\"", "_">>)
    /\ s_ret = SplitResult("Ok", << <<"z", "\"", "_">>, <<>> >>)

\* the fields written one after the other with the delimiter between them
RECURSIVE Joined(_, _)
Joined(fields, delim) ==
    IF Len(fields) = 0 THEN <<>>
    ELSE IF Len(fields) = 1 THEN fields[1]
    ELSE fields[1] \o <<delim>> \o Joined(Tail(fields), delim)

\* no piece of the string between two delimiters starts with a double quote
NoFieldStartsQuoted(x) ==
    /\ x # <<>> => x[1] # "\""
    /\ \A i \in 1..(Len(x) - 1) : x[i] = s_delim => x[i + 1] # "\""

\* C17: when no field of the input starts with a double quote and the
\* delimiter is ASCII, split_segments succeeds with one field more than the
\* input has delimiters, and the fields joined by the delimiter are the
\* input, character for character; the empty input gives one empty field
\* and an input that ends with the delimiter a last field that is empty.
C17_UnquotedFieldsRejoin ==
    (s_pc = "returned" /\ IsAscii(s_delim) /\ NoFieldStartsQuoted(s_input))
        => /\ s_ret.status = "Ok"
           /\ Len(s_ret.fields) = Cardinality({i \in 1..Len(s_input) : s_input[i] = s_delim}) + 1
           /\ Joined(s_ret.fields, s_delim) = s_input
           /\ s_input = <<>> => s_ret.fields = << <<>> >>
           /\ (s_input # <<>> /\ s_input[Len(s_input)] = s_delim)
                => s_ret.fields[Len(s_ret.fields)] = <<>>

\* C17 witness: z\__z"_ was split into [z\, (empty), z", (empty)]: the
\* backslash and the inner quote are kept as written
C17_Witness ==
    /\ SplitOf(<<"z", "\\", "_", "_", "z", "\"", "_">>)
    /\ s_ret = SplitResult("Ok", << <<"z", "\\">>, <<>>, <<"z", "\"">>, <<>> >>)

\* a text with every backslash and every double quote escaped
RECURSIVE Escaped(_)
Escaped(text) ==
    IF text = <<>> THEN <<>>
    ELSE (IF text[1] \in {"\\", "\""} THEN <<"\\", text[1]>> ELSE <<text[1]>>)
           \o Escaped(Tail(text))

\* a field as it is written back: quoted and escaped when it contains the
\* delimiter or starts with a double quote
Written(field) ==
    IF (\E i \in 1..Len(field) : field[i] = s_delim)
         \/ (field # <<>> /\ field[1] = "\"")
    THEN <<"\"">> \o Escaped(field) \o <<"\"">>
    ELSE field

Rejoined(fields) == Joined([i \in 1..Len(fields) |-> Written(fields[i])], s_delim)

\* C18: when split_segments succeeds, writing its fields back with the
\* delimiter between them, quoted and escaped where a field contains the
\* delimiter or starts with a double quote, and splitting that string again
\* gives the same fields.
C18_SplitRejoinRoundTrip ==
    (s_pc = "returned" /\ s_ret.status = "Ok")
        => SplitSegments(Rejoined(s_ret.fields), s_delim)
             = SplitResult("Ok", s_ret.fields)

\* C18 witness: "\"_"_z\ was split into ["_, z\], whose first field is
\* written back quoted and escaped
C18_Witness ==
    /\ SplitOf(<<"\"", "\\", "\"", "_", "\"", "_", "z">>)
    /\ s_ret = SplitResult("Ok", << <<"\"", "_">>, <<"z">> >>)
    /\ Rejoined(s_ret.fields) = s_input

\* the record the last frame printed
LastRecord == m_last.line[1]

\* the labels of the severity levels in upper case
UpperLabel ==
    ("Emergency" :> "EMERGENCY" @@ "Alert" :> "ALERT" @@ "Critical" :> "CRITICAL"
       @@ "Error" :> "ERROR" @@ "Warning" :> "WARNING" @@ "Notice" :> "NOTICE"
       @@ "Info" :> "INFO" @@ "Debug" :> "DEBUG" @@ "Trace" :> "TRACE")

\* the last frame was decoded and its record, with this severity label, is
\* the last thing printed: the template of the message, the system id of
\* the frame in hexadecimal, the file and the line of the message
RecordWithLabel(label) ==
    /\ m_out # <<>>
    /\ m_out[Len(m_out)] = Printed("stdout", "record", Body(m_buf))
    /\ LastRecord.severity = label
    /\ LastRecord.text.format = LastMessage.format
    /\ LastRecord.hex = UpperHex(U16At(LastPayload, 1))
    /\ LastRecord.file = LastMessage.location.file
    /\ LastRecord.line = LastMessage.location.line

\* a step of the loop that decodes a frame prints one thing, a record
OneRecordPerDecodedFrame ==
    (m_pc = "loop" /\ m_pos' > m_pos /\ m_last'.step = "frame" /\ m_last'.result = "Ok")
        => /\ Len(m_out') = Len(m_out) + 1
           /\ SubSeq(m_out', 1, Len(m_out)) = m_out
           /\ m_out'[Len(m_out')].kind = "record"

\* the frame 00 01 00 00 with a.elf loaded: system 0x0001, whose message 0
\* is `hello` at main.c:42 with severity Info
HelloDecoded ==
    /\ m_last.step = "frame"
    /\ m_last.result = "Ok"
    /\ m_last.data = Some(<<0, 1, 0, 0>>)
    /\ DOMAIN m_systems = {1}
    /\ m_systems[1] = DictA

\* C19 (as claimed): a frame that decodes prints exactly one record, made of
\* the severity label of the message as its name is written (`Info`), the
\* rendered text, the system id in hexadecimal, the file and the line; the
\* frame 00 01 00 00 prints `[Info] hello` with 0x1(file://main.c:42).
C19_RecordAsClaimed ==
    /\ [][OneRecordPerDecodedFrame]_vars
    /\ []((LastResolved /\ m_last.result = "Ok")
            => RecordWithLabel(LastMessage.severity_level))
    /\ [](HelloDecoded
            => /\ LastRecord.severity = "Info"
               /\ LastRecord.text = [format |-> "hello", args |-> <<>>]
               /\ LastRecord.hex = <<"1">>
               /\ LastRecord.file = "main.c" /\ LastRecord.line = 42)

\* C19 (amended): a frame that decodes prints exactly one record, made of
\* the severity label of the message in upper case (the alternate form of
\* its Display), the rendered text, the system id in hexadecimal, the file
\* and the line; the frame 00 01 00 00 prints `[INFO] hello` with
\* 0x1(file://main.c:42).
C19_RecordPrinted ==
    /\ [][OneRecordPerDecodedFrame]_vars
    /\ []((LastResolved /\ m_last.result = "Ok")
            => RecordWithLabel(UpperLabel[LastMessage.severity_level]))
    /\ [](HelloDecoded
            => /\ LastRecord.severity = "INFO"
               /\ LastRecord.text = [format |-> "hello", args |-> <<>>]
               /\ LastRecord.hex = <<"1">>
               /\ LastRecord.file = "main.c" /\ LastRecord.line = 42)

\* C19 witness: the frame 00 01 00 00 was decoded with a.elf loaded and its
\* record printed on stdout
C19_Witness ==
    /\ HelloDecoded
    /\ m_out[Len(m_out)].kind = "record"
    /\ LastRecord.severity = "INFO"

(***************************************************************************)
(* Claims about the merge walk of the dictionary loader (under SpecElf).   *)
(***************************************************************************)
\* some `argument` member carries the identifier of no message of the map
SomeArgumentWithoutMessage ==
    \E k \in 1..Len(e_argument) :
        \A id \in DOMAIN e_messages :
            IdentifierOf(e_messages[id]) # e_argument[k].id

\* C20: attempt_load_elf fails with OrphanedArguments exactly when some
\* argument member carries the (file, line, format-text) of no message; when
\* every argument carries that of some message the walk always has a
\* message left for the argument it holds and the pairing ends well,
\* however many messages have no argument.
C20_OrphanedExactlyWithoutMessage ==
    /\ e_pc = "returned"
         => (e_result.kind = "OrphanedArguments" <=> SomeArgumentWithoutMessage)
    /\ e_pc = "meta" => ~SomeArgumentWithoutMessage
    /\ (e_pc = "walk" /\ ~SomeArgumentWithoutMessage /\ e_ai <= Len(e_arguments))
         => e_mi <= Len(e_order)

\* C20 witness: a dictionary was returned in which a message without
\* arguments sorts before one with an argument, so the walk skipped it
C20_Witness ==
    /\ e_pc = "returned"
    /\ e_result.kind = "Ok"
    /\ \E a, b \in DOMAIN e_messages :
          /\ e_messages[a].arguments = <<>>
          /\ e_messages[b].arguments # <<>>
          /\ IdentifierLess(IdentifierOf(e_messages[a]), IdentifierOf(e_messages[b]))

(***************************************************************************)
(* Claims about the symbols of the dictionary loader (under SpecSym).      *)
(***************************************************************************)
\* the symbol table of the image, its markers and the address of the symbol
\* of a name
Table == SymbolsOf(y_symbols)
TableMarkers == UlogSectionMarkers(Table)
AddressOf(name) == Table[CHOOSE k \in 1..Len(Table) : Table[k].name = name].st_value

\* the members the loader takes for a sub-section
Section(X) == GetUlogSection(Table, TableMarkers, X).members

\* the levels in the order of the claim, and the smallest index whose marker
\* lies above an address, 0 when none does
LevelsInOrder ==
    <<"Emergency", "Alert", "Critical", "Error", "Warning", "Notice", "Info",
      "Debug", "Trace">>
MarkerAbove(address, i) == address < AddressOf(SeverityMarkerNames[i])
SmallestIndex(address) ==
    IF \A i \in 1..9 : ~MarkerAbove(address, i) THEN 0
    ELSE CHOOSE i \in 1..9 :
             MarkerAbove(address, i) /\ \A j \in 1..(i - 1) : ~MarkerAbove(address, j)

\* what the members of `string` and of `level` parse into
StringResults ==
    [k \in 1..Len(Section(StringName)) |-> ParseStringMember(Section(StringName)[k])]
LevelResults ==
    [k \in 1..Len(Section(LevelName)) |->
        ParseMessageMember(Section(LevelName)[k], SeverityLevelMaxIds(TableMarkers),
                           y_template_ok)]
StringsAccepted == \A k \in 1..Len(StringResults) : StringResults[k].ok

\* a member whose name has the three fields of a message, a line number the
\* loader reads and a format the formatter accepts
ShapedAsMessage(x) ==
    /\ SplitSegments(x.name, "_").status = "Ok"
    /\ Len(SplitSegments(x.name, "_").fields) = 3
    /\ ParseUsize(SplitSegments(x.name, "_").fields[2]).ok
    /\ y_template_ok

\* the k-th member of `level` is the one its id is stored for: no later
\* member has the same id
StoredFor(members, k) ==
    \A j \in (k + 1)..Len(members) :
        RelPosAsU16(members[j].rel_pos) # RelPosAsU16(members[k].rel_pos)

\* C21: the severity of a message is the level of the smallest index whose
\* `_eulog_level_*` marker lies strictly above the message's address, so a
\* message at the address of `_eulog_level_warning` and below
\* `_eulog_level_notice` is Notice; a message whose address is below none of
\* the nine markers makes the load fail with NoMatchingLogLevel.
C21_SeverityBySmallestMarker ==
    y_pc = "returned" =>
        /\ y_result.kind = "Ok" =>
              \A k \in 1..Len(Section(LevelName)) :
                  /\ SmallestIndex(Section(LevelName)[k].symbol.st_value) # 0
                  /\ StoredFor(Section(LevelName), k) =>
                        y_result.system.messages[
                            RelPosAsU16(Section(LevelName)[k].rel_pos)].severity_level
                        = LevelsInOrder[
                              SmallestIndex(Section(LevelName)[k].symbol.st_value)]
        /\ \A k \in 1..Len(Section(LevelName)) :
              ( /\ ShapedAsMessage(Section(LevelName)[k])
                /\ SmallestIndex(Section(LevelName)[k].symbol.st_value) = 0
                /\ StringsAccepted
                /\ \A j \in 1..(k - 1) : LevelResults[j].ok )
              => /\ y_result.kind = "NoMatchingLogLevel"
                 /\ y_result.name = Section(LevelName)[k].name

\* C21 witness: a dictionary was returned whose message lies at the address
\* of `_eulog_level_warning` and is Notice.
C21_Witness ==
    /\ y_pc = "returned"
    /\ y_result.kind = "Ok"
    /\ \E k \in 1..Len(Section(LevelName)) :
          /\ Section(LevelName)[k].symbol.st_value =
                 AddressOf(EndSymbol(LevelName \o <<"_", "w", "a", "r", "n", "i", "n", "g">>))
          /\ y_result.system.messages[
                 RelPosAsU16(Section(LevelName)[k].rel_pos)].severity_level = "Notice"

\* the symbols of the table the claim takes for the members of a sub-section
HasSymPrefix(name) ==
    Len(name) >= Len(SymPrefix) /\ \A i \in 1..Len(SymPrefix) : name[i] = SymPrefix[i]
ClaimedMember(k, X) ==
    /\ AddressOf(StartSymbol(X)) <= Table[k].st_value
    /\ Table[k].st_value < AddressOf(EndSymbol(X))
    /\ HasSymPrefix(Table[k].name)
ClaimedMembers(X) == {k \in 1..Len(Table) : ClaimedMember(k, X)}
AsMember(k, X) ==
    ElfSymbol(Table[k], SubSeq(Table[k].name, Len(SymPrefix) + 1, Len(Table[k].name)),
              Table[k].st_value - AddressOf(StartSymbol(X)))
SubSections == {StringName, LevelName, ArgumentName, MetaName}

\* C22: the members of a sub-section X are exactly the symbols of the table
\* with start_X <= address < end_X and a name that begins with
\* `__ulog_sym_`: a symbol of the range without the prefix (a marker
\* included), a prefixed symbol at end_X and a prefixed symbol outside the
\* range are no members; the relative position of a member is its address
\* minus start_X.
C22_MembersOfSubSection ==
    y_pc = "returned" =>
        \A X \in SubSections :
            /\ Len(Section(X)) = Cardinality(ClaimedMembers(X))
            /\ {Section(X)[i] : i \in 1..Len(Section(X))}
                   = {AsMember(k, X) : k \in ClaimedMembers(X)}

\* C22 witness: `meta` has a member, a prefixed symbol lies at its end and is
\* none, and the loader found no system id in a `meta` whose only prefixed
\* symbol lies at its end.
C22_Witness ==
    /\ y_pc = "returned"
    /\ Len(Section(MetaName)) = 1
    /\ \E k \in 1..Len(Table) :
          /\ HasSymPrefix(Table[k].name)
          /\ Table[k].st_value = AddressOf(EndSymbol(MetaName))
          /\ \A i \in 1..Len(Section(MetaName)) : Section(MetaName)[i].symbol # Table[k]
    /\ \E k \in 1..Len(Table) :
          /\ ~HasSymPrefix(Table[k].name)
          /\ AddressOf(StartSymbol(MetaName)) <= Table[k].st_value
          /\ Table[k].st_value < AddressOf(EndSymbol(MetaName))

\* the address of the k-th member of a sub-section less the start address of
\* the sub-section, and the members that lie 2^16 bytes or more behind it
OffsetOf(X, k) == Section(X)[k].symbol.st_value - AddressOf(StartSymbol(X))
FarMembers(X) == {k \in 1..Len(Section(X)) : OffsetOf(X, k) >= 65536}

\* the entries of a map of the dictionary are those of the members of X,
\* each under its offset and with its offset as id
IdsAreOffsets(X, map) ==
    /\ \A id \in DOMAIN map : map[id].id = id
    /\ \A k \in 1..Len(Section(X)) :
          StoredFor(Section(X), k) =>
              /\ OffsetOf(X, k) < 65536
              /\ OffsetOf(X, k) \in DOMAIN map
              /\ map[OffsetOf(X, k)].id = OffsetOf(X, k)

\* C23: in every dictionary attempt_load_elf returns, the id of each string
\* and of each message is its address minus the start address of its
\* sub-section, untruncated and below 2^16, and each is stored under that id.
C23_IdIsUntruncatedOffset ==
    (y_pc = "returned" /\ y_result.kind = "Ok") =>
        /\ IdsAreOffsets(StringName, y_result.system.ulog_strings)
        /\ IdsAreOffsets(LevelName, y_result.system.messages)

\* the members of `meta` named system_id, and the 16-bit value of the two
\* bytes of the section at an address in the byte order of the image
SystemIdMembers ==
    {k \in 1..Len(Section(MetaName)) : Section(MetaName)[k].name = SystemIdName}
FirstSystemId ==
    Section(MetaName)[CHOOSE k \in SystemIdMembers : \A j \in SystemIdMembers : k <= j]
ValueAt(address) ==
    IF y_endianness = "little"
    THEN ImageData[address + 1] + 256 * ImageData[address + 2]
    ELSE 256 * ImageData[address + 1] + ImageData[address + 2]

\* what the members of `argument` parse into, and the load getting as far as
\* the system id: every member is accepted and every argument has a message
ArgumentResults ==
    [k \in 1..Len(Section(ArgumentName)) |->
        ParseArgumentMember(Section(ArgumentName)[k], ImageData)]
MembersAccepted ==
    /\ StringsAccepted
    /\ \A k \in 1..Len(LevelResults) : LevelResults[k].ok
    /\ \A k \in 1..Len(ArgumentResults) : ArgumentResults[k].ok
ArgumentsHaveMessages ==
    \A k \in 1..Len(ArgumentResults) :
        \E j \in 1..Len(LevelResults) :
            IdentifierOf(LevelResults[j].v) = ArgumentResults[k].v.key.id

\* C24: on a successful load the system_id of the dictionary is the 16-bit
\* unsigned value of the two section bytes at the address of the `meta`
\* member named exactly system_id, little-endian for a little-endian image
\* and big-endian for a big-endian one; a `meta` without such a member makes
\* the load fail with NoSystemId.
C24_SystemIdInImageByteOrder ==
    y_pc = "returned" =>
        /\ y_result.kind = "Ok" =>
              /\ SystemIdMembers # {}
              /\ y_result.system.system_id = ValueAt(FirstSystemId.symbol.st_value)
        /\ y_result.kind = "NoSystemId" => SystemIdMembers = {}
        /\ (SystemIdMembers = {} /\ MembersAccepted /\ ArgumentsHaveMessages)
              => y_result.kind = "NoSystemId"

\* C24 witness: a big-endian image was loaded and the bytes 01 00 at the
\* address of system_id gave the system id 256.
C24_Witness ==
    /\ y_pc = "returned"
    /\ y_result.kind = "Ok"
    /\ y_endianness = "big"
    /\ SystemIdMembers # {}
    /\ y_result.system.system_id = 256

\* the fields the name of a member splits into on `_`
FieldsOf(x) == SplitSegments(x.name, "_").fields
Arg == <<"a", "r", "g">>

\* a decimal number: one decimal digit or more; a numeral: a decimal number
\* with or without a `+` before it
IsDecimal(text) ==
    text # <<>> /\ \A i \in 1..Len(text) : text[i] \in DOMAIN DigitValue
IsNumeral(text) ==
    \/ IsDecimal(text)
    \/ Len(text) >= 2 /\ text[1] = "+" /\ IsDecimal(Tail(text))

\* the first member the load rejects, in the order string, level, argument
RejectedMembers ==
    [k \in 1..(Len(StringResults) + Len(LevelResults) + Len(ArgumentResults)) |->
        IF k <= Len(StringResults)
        THEN [result |-> StringResults[k], name |-> Section(StringName)[k].name]
        ELSE IF k <= Len(StringResults) + Len(LevelResults)
        THEN [result |-> LevelResults[k - Len(StringResults)],
              name |-> Section(LevelName)[k - Len(StringResults)].name]
        ELSE [result |-> ArgumentResults[k - Len(StringResults) - Len(LevelResults)],
              name |-> Section(ArgumentName)[
                           k - Len(StringResults) - Len(LevelResults)].name]]
SomeRejected == \E k \in 1..Len(RejectedMembers) : ~RejectedMembers[k].result.ok
FirstRejectedMember ==
    RejectedMembers[CHOOSE k \in 1..Len(RejectedMembers) :
                        /\ ~RejectedMembers[k].result.ok
                        /\ \A j \in 1..(k - 1) : RejectedMembers[j].result.ok]

\* the load fails at the first member it rejects, with the error of that
\* member, and accepts a table none of whose members it rejects
LoadStopsAtFirstRejected ==
    /\ y_result.kind = "Ok" => ~SomeRejected
    /\ SomeRejected =>
          /\ y_result.kind = FirstRejectedMember.result.kind
          /\ y_result.name = FirstRejectedMember.name

\* what the claim says of a member of `string` or `level` with result r, and
\* of a member of `argument`; Number is what counts as a decimal number
ThreeFieldsAsClaimed(x, r, Number(_)) ==
    /\ r.ok => Len(FieldsOf(x)) = 3 /\ Number(FieldsOf(x)[2])
    /\ Len(FieldsOf(x)) # 3 => r.kind = "SegmentCountMismatch"
    /\ (Len(FieldsOf(x)) = 3 /\ ~Number(FieldsOf(x)[2])) => r.kind = "InvalidInteger"
FiveFieldsAsClaimed(x, r, Number(_)) ==
    /\ r.ok => /\ Len(FieldsOf(x)) = 5
               /\ Number(FieldsOf(x)[2])
               /\ FieldsOf(x)[4] = Arg
               /\ Number(FieldsOf(x)[5])
    /\ Len(FieldsOf(x)) # 5 => r.kind = "SegmentCountMismatch"
    /\ (Len(FieldsOf(x)) = 5 /\ FieldsOf(x)[4] # Arg)
          => r.kind = "NonArgumentInArguments"
    /\ ( /\ Len(FieldsOf(x)) = 5
         /\ FieldsOf(x)[4] = Arg
         /\ ~(Number(FieldsOf(x)[2]) /\ Number(FieldsOf(x)[5])) )
          => r.kind = "InvalidInteger"

TypeIdKnown(x) ==
    /\ x.symbol.st_value < Len(ImageData)
    /\ TryFrom(ImageData[x.symbol.st_value + 1]).ok

\* what holds of a member of `string`, of `level` and of `argument`
StringNameChecked(x, r) ==
    /\ r.ok <=> (Len(FieldsOf(x)) = 3 /\ IsNumeral(FieldsOf(x)[2]))
    /\ Len(FieldsOf(x)) # 3 => r.kind = "SegmentCountMismatch"
    /\ (Len(FieldsOf(x)) = 3 /\ ~IsNumeral(FieldsOf(x)[2])) => r.kind = "InvalidInteger"
LevelNameChecked(x, r) ==
    /\ r.ok => Len(FieldsOf(x)) = 3 /\ IsNumeral(FieldsOf(x)[2])
    /\ Len(FieldsOf(x)) # 3 => r.kind = "SegmentCountMismatch"
    /\ (Len(FieldsOf(x)) = 3 /\ ~IsNumeral(FieldsOf(x)[2]) /\ y_template_ok)
          => r.kind = "InvalidInteger"
ArgumentNameChecked(x, r) ==
    /\ r.ok <=> /\ Len(FieldsOf(x)) = 5
                /\ IsNumeral(FieldsOf(x)[2])
                /\ FieldsOf(x)[4] = Arg
                /\ IsNumeral(FieldsOf(x)[5])
                /\ TypeIdKnown(x)
    /\ Len(FieldsOf(x)) # 5 => r.kind = "SegmentCountMismatch"
    /\ (Len(FieldsOf(x)) = 5 /\ FieldsOf(x)[4] # Arg)
          => r.kind = "NonArgumentInArguments"
    /\ ( /\ Len(FieldsOf(x)) = 5
         /\ FieldsOf(x)[4] = Arg
         /\ ~(IsNumeral(FieldsOf(x)[2]) /\ IsNumeral(FieldsOf(x)[5]))
         /\ TypeIdKnown(x) )
          => r.kind = "InvalidInteger"

StoredArguments ==
    UNION {{systems_message.arguments[i] : i \in 1..Len(systems_message.arguments)} :
             systems_message \in UNION {{m_systems[s].messages[m] :
                                           m \in DOMAIN m_systems[s].messages} :
                                        s \in DOMAIN m_systems}}

\* the last frame was decoded, and handled as its payload alone is handled
\* with the registry
HandledByPayloadAlone ==
    (m_last.step = "frame" /\ m_last.data # None)
        => \E fmt_ok \in BOOLEAN :
             m_last = HandleFrame(m_systems, [ok |-> TRUE, data |-> m_last.data[1]], fmt_ok)

\* C26: once the dictionaries are loaded, no step of the loop, whether its
\* frame succeeds or fails, changes the registry: the systems, their strings
\* and their messages stay as they are; every argument a registered message
\* stores has no value; and the outcome of a frame is that of its payload
\* and the registry alone.
C26_FramesLeaveRegistry ==
    /\ [][m_pc = "loop" => m_systems' = m_systems]_vars
    /\ [](\A a \in StoredArguments : a.value = None)
    /\ [](HandledByPayloadAlone)

\* C26 witness: a second frame was rendered with a decoded argument value,
\* and the registry still holds arguments
C26_Witness ==
    /\ m_pc = "loop"
    /\ Len(FrameOutcomes) >= 2
    /\ m_last.step = "frame"
    /\ m_last.result = "Ok"
    /\ \E i \in DOMAIN m_last.line[1].text.args : m_last.line[1].text.args[i] # None
    /\ StoredArguments # {}

\* what the argument loop leaves of a payload whose ids resolve in the
\* registry
ArgumentsRead(p) ==
    LET system == m_systems[ReadU16(p).v]
        header == ReadU16(ReadU16(p).rest)
    IN  ReadArguments(system.messages[header.v].arguments, header.rest,
                      system.ulog_strings)

\* the ids of a payload resolve to a registered message
Resolves(p) ==
    /\ ReadU16(p).ok
    /\ ReadU16(ReadU16(p).rest).ok
    /\ ReadU16(p).v \in DOMAIN m_systems
    /\ ReadU16(ReadU16(p).rest).v \in DOMAIN m_systems[ReadU16(p).v].messages

\* a payload holding more bytes than the arguments of its message consume
HoldsMore(p) ==
    /\ Resolves(p)
    /\ ArgumentsRead(p).status = "Ok"
    /\ ArgumentsRead(p).rest # <<>>

\* a payload without the bytes its arguments left unread
LeadingBytes(p) == SubSeq(p, 1, Len(p) - Len(ArgumentsRead(p).rest))

\* C27: a frame whose payload holds more bytes than the arguments of the
\* resolved message consume is rendered as its leading bytes alone are: one
\* record is printed on the output stream and nothing else, no error names
\* the bytes left over, the loop goes on behind the frame and the registry
\* is as before; the only failure left is the formatter rejecting the
\* values, which it does for the leading bytes alone as well.
C27_SurplusBytesDiscarded ==
    [][(m_pc = "loop" /\ m_last'.step = "frame" /\ m_last'.data # None
          /\ HoldsMore(m_last'.data[1]))
        => /\ m_pc' = "loop"
           /\ m_systems' = m_systems
           /\ m_pos' = m_pos + Len(m_buf')
           /\ \/ /\ m_last'.result = "Ok"
                 /\ m_last'.line
                      = HandleFrame(m_systems,
                                    [ok |-> TRUE, data |-> LeadingBytes(m_last'.data[1])],
                                    TRUE).line
                 /\ m_out' = Append(m_out, Printed("stdout", "record",
                                                   DecoderInput(m_buf')))
              \/ /\ m_last'.result = "Format"
                 /\ m_last'.cause = "Format"
                 /\ HandleFrame(m_systems,
                                [ok |-> TRUE, data |-> LeadingBytes(m_last'.data[1])],
                                FALSE).result = "Format"
                 /\ m_out' = Append(m_out, Printed("stderr", "diag",
                                                   DecoderInput(m_buf')))]_vars

\* C27 witness: after a first record, "n=%d" arrived with its argument and
\* a byte to spare and was printed as a record with the argument's value
C27_Witness ==
    /\ m_pc = "loop"
    /\ Len(FrameOutcomes) >= 2
    /\ FrameOutcomes[Len(FrameOutcomes) - 1].stream = "stdout"
    /\ FrameOutcomes[Len(FrameOutcomes)].stream = "stdout"
    /\ m_last.step = "frame"
    /\ m_last.result = "Ok"
    /\ HoldsMore(m_last.data[1])
    /\ LeadingBytes(m_last.data[1]) # m_last.data[1]
    /\ \E i \in DOMAIN m_last.line[1].text.args : m_last.line[1].text.args[i] # None

\* the bytes read for a frame without its zero terminator: a run that
\* reached EOF has no terminator and loses nothing
WithoutTerminator(buf) ==
    IF buf # <<>> /\ buf[Len(buf)] = 0 THEN SubSeq(buf, 1, Len(buf) - 1) ELSE buf

\* C28 (as claimed): the bytes the framing decoder was handed for the last
\* frame, which are the bytes its record or diagnostic went with, are the
\* bytes read from the source for that frame without the zero terminator,
\* and all of them when the run reached EOF without a terminator.
C28_DecoderGetsFrameWithoutTerminator ==
    m_last.step = "frame"
        => /\ DecoderInput(m_buf) = WithoutTerminator(m_buf)
           /\ m_last.result # "Panic"
                => FrameOutcomes[Len(FrameOutcomes)].raw = WithoutTerminator(m_buf)

=============================================================================
